---- MODULE Spec2Model ----
(***************************************************************************)
(* A model of the n8n chat application: the webhook client (N8NClient),   *)
(* the persistence client (MockAPIClient with its LocalStorage fallback)  *)
(* and the chat state store (ChatProvider).                               *)
(*                                                                         *)
(* Five specifications share the definitions of this module:              *)
(*   SpecRetry       one N8NClient driven through sendMessageWithRetry    *)
(*   SpecClient      one MockAPIClient driven through its public          *)
(*                   operations                                           *)
(*   Spec            one ChatProvider with its two clients                *)
(*   SpecThinking    the ChatProvider with ChatInterface and its          *)
(*                   thinking-status hook                                 *)
(*   SpecNormalizer  validateResponse and deduplicateContent of one       *)
(*                   N8NClient                                            *)
(*                                                                         *)
(* JavaScript runs one task at a time: an action is the synchronous code  *)
(* between two awaits of a handler.  Time is a millisecond clock that     *)
(* advances in steps of TickMs.                                           *)
(***************************************************************************)
EXTENDS Integers, Sequences, FiniteSets, TLC

VARIABLES
  now,            \* Date.now(), in milliseconds
  \* ---- N8NClient ----
  timeout,        \* config.timeout
  retryAttempts,  \* config.retryAttempts
  retryDelay,     \* config.retryDelay
  rPc,            \* position of the sendMessageWithRetry call
  attempt,        \* the loop variable of sendMessageWithRetry
  calls,          \* sendMessage invocations made by the current call
  outstanding,    \* webhook requests issued and not yet settled
  lastErr,        \* the error of the most recent failed attempt
  rResult,        \* what the call returned or threw
  timerDue,       \* when the backoff timer may fire
  lastFailAt,     \* time the most recent attempt failed
  lastStartAt,    \* time the most recent attempt started
  backoffs,       \* backoff waits started by the current call
  \* ---- MockAPIClient ----
  useFallback,    \* this.useFallback
  remoteSessions, \* the sessions held by the remote service
  remoteMessages, \* the messages held by the remote service
  localSessions,  \* localStorage 'chat-sessions'
  localMessages,  \* localStorage 'chat-messages'
  nextId,         \* the next id that generateId or the service hands out
  lastOp,         \* the most recent client operation and its outcome
  \* ---- ChatProvider ----
  sessions,          \* state.sessions
  currentSessionId,  \* state.currentSessionId, 0 for null
  isLoading,         \* state.isLoading
  error,             \* state.error
  currentMessages,   \* the messages of the current session, as displayed
  sendingMessageRef, \* sendingMessageRef.current
  savedSessionId,    \* localStorage STORAGE_KEYS.sessionId, 0 when absent
  mounted,           \* has the mount effect run?
  sends,             \* the sendMessage calls made so far and their positions
  currentMessageId,  \* currentMessageId of the provider, 0 for null
  \* ---- ChatInterface and its useThinkingStatus hook ----
  uiMounted,         \* is ChatInterface mounted?
  intervalRef,       \* is the interval of intervalRef.current set?
  lastPoll,          \* the most recent request of fetchStatus under the
                     \* interval that is set, NoPoll when none is set
  \* ---- the /api/status route ----
  thinkingStatus,    \* the Map of the route: a function from keys to entries
  statusReply        \* the most recent request of the route and its response

n8nVars == <<timeout, retryAttempts, retryDelay, rPc, attempt, calls, outstanding,
             lastErr, rResult, timerDue, lastFailAt, lastStartAt, backoffs>>

dbVars == <<useFallback, remoteSessions, remoteMessages, localSessions,
            localMessages, nextId>>
opVars == <<lastOp>>
storeVars == <<sessions, currentSessionId, isLoading, error, currentMessages,
               sendingMessageRef, savedSessionId, mounted, sends, currentMessageId,
               uiMounted, intervalRef, lastPoll>>

statusVars == <<thinkingStatus, statusReply>>

vars == <<now, n8nVars, dbVars, opVars, storeVars, statusVars>>

(***************************************************************************)
(* Bounds of the model.                                                    *)
(***************************************************************************)
TickMs == 500
MaxTime == 4000
MaxRetryAttempts == 3
MaxClientTime == 1000
MaxClientIds == 2

(***************************************************************************)
(* JavaScript values.  Every value is a record with a kind, so that any    *)
(* two values can be compared.                                             *)
(***************************************************************************)
Undefined == [kind |-> "undefined"]
NoError == [kind |-> "none"]

Null == [kind |-> "null"]
Str(s) == [kind |-> "string", s |-> s]
Bool(b) == [kind |-> "boolean", b |-> b]
Num(n) == [kind |-> "number", n |-> n]
\* a string of two or more lines, as the sequence that split('\n') gives; a
\* string of one line is Str of that line
Text(lines) == [kind |-> "string", lines |-> lines]
\* a Date object, and the ISO 8601 string of an instant
Date(t) == [kind |-> "date", ms |-> t]
IsoString(t) == [kind |-> "isostring", ms |-> t]
\* an object is a function from its keys, an array a sequence of its items
Obj(f) == [kind |-> "object", fields |-> f]
Arr(items) == [kind |-> "array", items |-> items]

\* Date.prototype.toISOString and new Date(string)
ToISOString(d) == IsoString(d.ms)
NewDate(v) == IF v.kind = "isostring" THEN Date(v.ms) ELSE v

\* JavaScript truthiness
Truthy(v) ==
  CASE v.kind \in {"undefined", "null"} -> FALSE
    [] v.kind = "string" -> "lines" \in DOMAIN v \/ v.s # ""
    [] v.kind = "number" -> v.n # 0
    [] v.kind = "boolean" -> v.b
    [] OTHER -> TRUE

\* The characters of the object keys of the model, for String.startsWith.
KeyChars ==
  [text1 |-> <<"t", "e", "x", "t", "1">>,
   chart1 |-> <<"c", "h", "a", "r", "t", "1">>,
   data |-> <<"d", "a", "t", "a">>,
   timestamp |-> <<"t", "i", "m", "e", "s", "t", "a", "m", "p">>,
   text2 |-> <<"t", "e", "x", "t", "2">>,
   text10 |-> <<"t", "e", "x", "t", "1", "0">>,
   note1 |-> <<"n", "o", "t", "e", "1">>,
   type |-> <<"t", "y", "p", "e">>]
TextPrefix == <<"t", "e", "x", "t">>
ChartPrefix == <<"c", "h", "a", "r", "t">>

StartsWith(key, prefix) ==
  LET chars == KeyChars[key] IN
    /\ Len(chars) >= Len(prefix)
    /\ SubSeq(chars, 1, Len(prefix)) = prefix

\* JSON.parse(JSON.stringify(v)): a Date becomes its ISO string, an undefined
\* member of an object is dropped, an undefined item of an array becomes null.
RECURSIVE JsonValue(_)
JsonValue(v) ==
  CASE v.kind = "date" -> ToISOString(v)
    [] v.kind = "object" ->
         LET kept == {k \in DOMAIN v.fields : v.fields[k].kind # "undefined"} IN
           Obj([k \in kept |-> JsonValue(v.fields[k])])
    [] v.kind = "array" ->
         Arr([i \in 1..Len(v.items) |->
                IF v.items[i].kind = "undefined" THEN Null ELSE JsonValue(v.items[i])])
    [] OTHER -> v

\* Array.prototype.findIndex, counted from 1; 0 stands for -1
FindIndex(seq, Test(_)) ==
  IF \E i \in 1..Len(seq) : Test(seq[i])
    THEN CHOOSE i \in 1..Len(seq) :
           /\ Test(seq[i])
           /\ \A j \in 1..(i - 1) : ~Test(seq[j])
    ELSE 0

Map(seq, F(_)) == [i \in 1..Len(seq) |-> F(seq[i])]

(***************************************************************************)
(* The clock.                                                              *)
(***************************************************************************)
Tick(limit) ==
  /\ now + TickMs <= limit
  /\ now' = now + TickMs

(***************************************************************************)
(* N8NClient                                                               *)
(***************************************************************************)
\* constructor defaults
DefaultTimeout == 120000
DefaultRetryAttempts == 3
DefaultRetryDelay == 1000
RetryDelays == {TickMs, DefaultRetryDelay}
\* the deadlines a client is configured with: a short one, and the default
Timeouts == {2 * TickMs, DefaultTimeout}

\* What fetch can do with the webhook request: resolve with a 2xx status,
\* resolve with another status, or reject with a value.  A rejection value is
\* whatever the transport throws: a TimeoutError/AbortError, a TypeError whose
\* message mentions fetch or network, an N8NError raised below the client, or
\* any other value.
FetchOutcomes ==
  {"ok", "status", "rejectTimeout", "rejectFetch", "rejectValidation", "rejectOther"}

N8NError(type, k) == [kind |-> "N8NError", type |-> type, attempt |-> k]
OtherError(k) == [kind |-> "Error", type |-> "other", attempt |-> k]

\* N8NClient.sendMessage: the error it throws for a fetch outcome, NoError
\* when it returns a response.
SendMessageError(outcome, k) ==
  CASE outcome = "ok" -> NoError
    [] outcome = "status" -> N8NError("server", k)
    [] outcome = "rejectTimeout" -> N8NError("timeout", k)
    [] outcome = "rejectFetch" -> N8NError("network", k)
    [] outcome = "rejectValidation" -> N8NError("validation", k)
    [] OTHER -> OtherError(k)

\* the error thrown after the loop ('Max retry attempts reached'); it belongs
\* to no attempt
MaxRetryError == N8NError("network", 0)

\* BackoffDelay with a constant wait
BackoffDelay_Constant(delay, k) == delay

\* the wait before the retry that follows attempt k
BackoffDelay(delay, k) == delay * k

\* Rethrows without the check of the final attempt
Rethrows_NoFinalCheck(err, k, n) ==
  \/ err.kind # "N8NError"
  \/ err.type = "validation"

\* Rethrows without the check of validation errors
Rethrows_RetryValidation(err, k, n) ==
  \/ err.kind # "N8NError"
  \/ k = n

\* does the catch block of sendMessageWithRetry rethrow this error?
Rethrows(err, k, n) ==
  \/ err.kind # "N8NError"
  \/ err.type = "validation"
  \/ k = n

\* sendMessageWithRetry up to the first await: the loop is entered with
\* attempt = 1 and sendMessage issues its request, or the loop is skipped.
RetryBegin ==
  /\ attempt' = 1
  /\ backoffs' = 0
  /\ lastErr' = NoError
  /\ IF 1 <= retryAttempts
       THEN /\ rPc' = "attempt"
            /\ calls' = 1
            /\ outstanding' = outstanding + 1
            /\ lastStartAt' = now
            /\ rResult' = Undefined
       ELSE /\ rPc' = "thrown"
            /\ calls' = 0
            /\ rResult' = MaxRetryError
            /\ UNCHANGED <<outstanding, lastStartAt>>
  /\ UNCHANGED <<timeout, retryAttempts, retryDelay, timerDue, lastFailAt>>

\* the request of the current attempt settles
RetrySettle(outcome) ==
  /\ rPc = "attempt"
  /\ outstanding' = outstanding - 1
  /\ LET err == SendMessageError(outcome, attempt) IN
       IF err = NoError
         THEN /\ rPc' = "returned"
              /\ rResult' = [kind |-> "response", attempt |-> attempt]
              /\ UNCHANGED <<lastErr, lastFailAt, timerDue, backoffs>>
         ELSE /\ lastErr' = err
              /\ lastFailAt' = now
              /\ IF Rethrows(err, attempt, retryAttempts)
                   THEN /\ rPc' = "thrown"
                        /\ rResult' = err
                        /\ UNCHANGED <<timerDue, backoffs>>
                   ELSE /\ rPc' = "backoff"
                        /\ timerDue' = now + BackoffDelay(retryDelay, attempt)
                        /\ backoffs' = backoffs + 1
                        /\ UNCHANGED rResult
  /\ UNCHANGED <<timeout, retryAttempts, retryDelay, attempt, calls, lastStartAt>>

\* the backoff timer fires: attempt++ and the next sendMessage
RetryResume ==
  /\ rPc = "backoff"
  /\ now >= timerDue
  /\ attempt' = attempt + 1
  /\ IF attempt + 1 <= retryAttempts
       THEN /\ rPc' = "attempt"
            /\ calls' = calls + 1
            /\ outstanding' = outstanding + 1
            /\ lastStartAt' = now
            /\ UNCHANGED rResult
       ELSE /\ rPc' = "thrown"
            /\ rResult' = MaxRetryError
            /\ UNCHANGED <<calls, outstanding, lastStartAt>>
  /\ UNCHANGED <<timeout, retryAttempts, retryDelay, lastErr, timerDue, lastFailAt, backoffs>>

(***************************************************************************)
(* Persistence records.  A stored record (MockAPISession, MockAPIMessage)  *)
(* carries its timestamps as ISO strings, a ChatSession or a Message as    *)
(* Dates.                                                                  *)
(***************************************************************************)
\* status 0 stands for an undefined status
MockAPIError(message, status) ==
  [kind |-> "MockAPIError", message |-> message, status |-> status]
IsError(v) == "kind" \in DOMAIN v /\ v.kind \in {"MockAPIError", "N8NError", "Error"}

TransformSession(session) ==
  [id |-> session.id,
   name |-> session.name,
   createdAt |-> NewDate(session.createdAt),
   updatedAt |-> NewDate(session.updatedAt),
   messages |-> <<>>,
   metadata |-> [messageCount |-> session.messageCount,
                 lastActivity |-> NewDate(session.lastActivity),
                 isActive |-> session.isActive]]

\* the stored content "looks like mixed format": a plain object with a key
\* that starts with text or chart
LooksMixed(content) ==
  /\ Truthy(content)
  /\ content.kind = "object"
  /\ \E key \in DOMAIN content.fields :
       StartsWith(key, TextPrefix) \/ StartsWith(key, ChartPrefix)

TransformMessage(message) ==
  [id |-> message.id,
   sessionId |-> message.sessionId,
   content |-> message.content,
   type |-> message.type,
   timestamp |-> NewDate(message.timestamp),
   responseData |->
     IF Truthy(message.responseType)
       THEN IF LooksMixed(message.responseContent)
              THEN [type |-> Str("mixed"),
                    content |-> Arr(<<message.responseContent>>),
                    metadata |-> message.responseMetadata]
              ELSE [type |-> message.responseType,
                    content |-> message.responseContent,
                    metadata |-> message.responseMetadata]
       ELSE Undefined]

\* message.responseData?.type and its siblings
ResponseField(message, field) ==
  IF message.responseData = Undefined THEN Undefined ELSE message.responseData[field]

\* the MockAPIMessage that createMessage builds from a Message
MessageData(message, id) ==
  [id |-> id,
   sessionId |-> message.sessionId,
   content |-> message.content,
   type |-> message.type,
   timestamp |-> ToISOString(message.timestamp),
   responseType |-> ResponseField(message, "type"),
   responseContent |-> ResponseField(message, "content"),
   responseMetadata |-> ResponseField(message, "metadata")]

\* a MockAPIMessage as JSON.stringify writes it and JSON.parse reads it back
JsonMessage(data) ==
  [data EXCEPT !.responseType = JsonValue(@),
               !.responseContent = JsonValue(@),
               !.responseMetadata = JsonValue(@)]

\* Array.prototype.sort by timestamp, ascending; the sort is stable
RECURSIVE InsertByTime(_, _)
InsertByTime(sorted, m) ==
  IF sorted = <<>> THEN <<m>>
  ELSE IF Head(sorted).timestamp.ms <= m.timestamp.ms
         THEN <<Head(sorted)>> \o InsertByTime(Tail(sorted), m)
         ELSE <<m>> \o sorted

RECURSIVE SortByTime(_)
SortByTime(seq) ==
  IF seq = <<>> THEN <<>>
  ELSE InsertByTime(SortByTime(SubSeq(seq, 1, Len(seq) - 1)), seq[Len(seq)])

Abs(n) == IF n < 0 THEN -n ELSE n

(***************************************************************************)
(* LocalStorageMockAPIClient: every operation reads the two lists from     *)
(* localStorage and writes back what it changed.  ls is the list under     *)
(* 'chat-sessions', lm the list under 'chat-messages'; an operation yields *)
(* the two lists and its result (res), a thrown error being a result of    *)
(* kind MockAPIError.                                                      *)
(***************************************************************************)
DedupWindowMs == 1000

LocalGetSessions(ls, lm) ==
  [ls |-> ls, lm |-> lm, res |-> Map(ls, TransformSession)]

LocalGetSession(ls, lm, id) ==
  LET index == FindIndex(ls, LAMBDA x : x.id = id) IN
    [ls |-> ls, lm |-> lm,
     res |-> IF index = 0 THEN Null ELSE TransformSession(ls[index])]

LocalCreateSession(ls, lm, name, id, t) ==
  LET sessionData == [id |-> id, name |-> name,
                      createdAt |-> IsoString(t), updatedAt |-> IsoString(t),
                      messageCount |-> 0, lastActivity |-> IsoString(t),
                      isActive |-> TRUE] IN
    [ls |-> Append(ls, sessionData), lm |-> lm, res |-> TransformSession(sessionData)]

LocalUpdateSession(ls, lm, id, name, t) ==
  LET index == FindIndex(ls, LAMBDA x : x.id = id) IN
    IF index = 0
      THEN [ls |-> ls, lm |-> lm, res |-> MockAPIError("Session not found", 404)]
      ELSE LET updated == [ls[index] EXCEPT !.name = name, !.updatedAt = IsoString(t)] IN
             [ls |-> [ls EXCEPT ![index] = updated], lm |-> lm,
              res |-> TransformSession(updated)]

LocalDeleteSession(ls, lm, id) ==
  [ls |-> SelectSeq(ls, LAMBDA x : x.id # id),
   lm |-> SelectSeq(lm, LAMBDA m : m.sessionId # id),
   res |-> Undefined]

LocalUpdateSessionActivity(ls, lm, id, t) ==
  LET index == FindIndex(ls, LAMBDA x : x.id = id) IN
    [ls |-> IF index = 0 THEN ls
            ELSE [ls EXCEPT ![index].lastActivity = IsoString(t),
                            ![index].updatedAt = IsoString(t)],
     lm |-> lm, res |-> Undefined]

LocalGetMessages(ls, lm, sessionId) ==
  [ls |-> ls, lm |-> lm,
   res |-> SortByTime(Map(SelectSeq(lm, LAMBDA m : m.sessionId = sessionId),
                          TransformMessage))]

\* LocalIncrementSessionMessageCount that leaves the session as it is
LocalIncrementSessionMessageCount_Skipped(ls, sessionId, t) == ls

LocalIncrementSessionMessageCount(ls, sessionId, t) ==
  LET index == FindIndex(ls, LAMBDA x : x.id = sessionId) IN
    IF index = 0 THEN ls
    ELSE [ls EXCEPT ![index].messageCount = @ + 1,
                    ![index].lastActivity = IsoString(t),
                    ![index].updatedAt = IsoString(t)]

\* is the stored message m "similar" to the message to create?
SimilarMessage(m, message) ==
  /\ m.sessionId = message.sessionId
  /\ m.content = message.content
  /\ m.type = message.type
  /\ Abs(NewDate(m.timestamp).ms - message.timestamp.ms) < DedupWindowMs

\* LocalCreateMessage without the check for a similar message
LocalCreateMessage_NoCheck(ls, lm, message, id, t) ==
  LET messageData == MessageData(message, id) IN
    [ls |-> LocalIncrementSessionMessageCount(ls, message.sessionId, t),
     lm |-> Append(lm, JsonMessage(messageData)),
     res |-> TransformMessage(messageData)]

LocalCreateMessage(ls, lm, message, id, t) ==
  LET messageData == MessageData(message, id)
      existing == FindIndex(lm, LAMBDA m : SimilarMessage(m, message))
  IN IF existing # 0
       THEN [ls |-> ls, lm |-> lm, res |-> TransformMessage(lm[existing])]
       ELSE [ls |-> LocalIncrementSessionMessageCount(ls, message.sessionId, t),
             lm |-> Append(lm, JsonMessage(messageData)),
             res |-> TransformMessage(messageData)]

\* updates.content || messages[index].content, and the like
OrElse(v, w) == IF Truthy(v) THEN v ELSE w

LocalUpdateMessage(ls, lm, id, updates) ==
  LET index == FindIndex(lm, LAMBDA m : m.id = id) IN
    IF index = 0
      THEN [ls |-> ls, lm |-> lm, res |-> MockAPIError("Message not found", 404)]
      ELSE LET old == lm[index]
               updated ==
                 [old EXCEPT
                    !.content = IF Truthy(updates.content) THEN updates.content.s ELSE @,
                    !.responseType = OrElse(ResponseField(updates, "type"), @),
                    !.responseContent = OrElse(ResponseField(updates, "content"), @),
                    !.responseMetadata = OrElse(ResponseField(updates, "metadata"), @)]
           IN [ls |-> ls, lm |-> [lm EXCEPT ![index] = JsonMessage(updated)],
               res |-> TransformMessage(updated)]

LocalDeleteMessage(ls, lm, id) ==
  [ls |-> ls, lm |-> SelectSeq(lm, LAMBDA m : m.id # id), res |-> Undefined]

LocalHealthCheck(ls, lm) == [ls |-> ls, lm |-> lm, res |-> Bool(TRUE)]

LocalClearAllData(ls, lm) == [ls |-> <<>>, lm |-> <<>>, res |-> Undefined]

(***************************************************************************)
(* The remote CRUD service behind MockAPIClient.request.  A request either *)
(* meets a fault (the network fails, the deadline passes, the service      *)
(* answers 5xx) or is served by the service, which answers 404 for an id   *)
(* it does not hold.  rs and rm are the service's sessions and messages.   *)
(***************************************************************************)
Faults == {"none", "network", "timeout", "status500"}

\* MockAPIClient.request: the MockAPIError thrown for a fault
RequestError(fault) ==
  CASE fault = "network" -> MockAPIError("Network error", 0)
    [] fault = "timeout" -> MockAPIError("Request timeout", 0)
    [] OTHER -> MockAPIError("HTTP 500", 500)

NotFound == MockAPIError("HTTP 404", 404)

\* a database: the two lists of the service and the two lists of localStorage
Db(rs, rm, ls, lm) == [rs |-> rs, rm |-> rm, ls |-> ls, lm |-> lm]

\* the outcome of a client operation served by the service
Remote(db, res) == [db |-> db, res |-> res, served |-> "remote", remoteErr |-> NoError]

\* the outcome of a client operation that fell back to localStorage (err is
\* the error of the remote call) or that skipped the remote call (NoError)
Local(db, r, err) ==
  [db |-> [db EXCEPT !.ls = r.ls, !.lm = r.lm], res |-> r.res,
   served |-> "local", remoteErr |-> err]

(***************************************************************************)
(* MockAPIClient.  fallback is this.useFallback.                           *)
(***************************************************************************)
ClientGetSessions(db, fallback, fault) ==
  IF fallback THEN Local(db, LocalGetSessions(db.ls, db.lm), NoError)
  ELSE IF fault # "none"
    THEN Local(db, LocalGetSessions(db.ls, db.lm), RequestError(fault))
    ELSE Remote(db, Map(db.rs, TransformSession))

ClientGetSession(db, fallback, fault, id) ==
  LET index == FindIndex(db.rs, LAMBDA x : x.id = id) IN
  IF fallback THEN Local(db, LocalGetSession(db.ls, db.lm, id), NoError)
  ELSE IF fault # "none"
    THEN Local(db, LocalGetSession(db.ls, db.lm, id), RequestError(fault))
    ELSE IF index = 0
      THEN [db |-> db, res |-> Null, served |-> "none", remoteErr |-> NotFound]
      ELSE Remote(db, TransformSession(db.rs[index]))

ClientCreateSession(db, fallback, fault, name, id, t) ==
  LET session == [id |-> id, name |-> name,
                  createdAt |-> IsoString(t), updatedAt |-> IsoString(t),
                  messageCount |-> 0, lastActivity |-> IsoString(t),
                  isActive |-> TRUE] IN
  IF fallback THEN Local(db, LocalCreateSession(db.ls, db.lm, name, id, t), NoError)
  ELSE IF fault # "none"
    THEN Local(db, LocalCreateSession(db.ls, db.lm, name, id, t), RequestError(fault))
    ELSE Remote([db EXCEPT !.rs = Append(@, session)], TransformSession(session))

ClientUpdateSession(db, fallback, fault, id, name, t) ==
  LET index == FindIndex(db.rs, LAMBDA x : x.id = id) IN
  IF fallback THEN Local(db, LocalUpdateSession(db.ls, db.lm, id, name, t), NoError)
  ELSE IF fault # "none"
    THEN Local(db, LocalUpdateSession(db.ls, db.lm, id, name, t), RequestError(fault))
    ELSE IF index = 0
      THEN Local(db, LocalUpdateSession(db.ls, db.lm, id, name, t), NotFound)
      ELSE LET session == [db.rs[index] EXCEPT !.name = name,
                                               !.updatedAt = IsoString(t)] IN
             Remote([db EXCEPT !.rs[index] = session], TransformSession(session))

ClientDeleteSession(db, fallback, fault, id) ==
  LET index == FindIndex(db.rs, LAMBDA x : x.id = id) IN
  IF fallback THEN Local(db, LocalDeleteSession(db.ls, db.lm, id), NoError)
  ELSE IF fault # "none"
    THEN Local(db, LocalDeleteSession(db.ls, db.lm, id), RequestError(fault))
    ELSE IF index = 0
      THEN Local(db, LocalDeleteSession(db.ls, db.lm, id), NotFound)
      ELSE Remote([db EXCEPT !.rs = SelectSeq(@, LAMBDA x : x.id # id)], Undefined)

ClientUpdateSessionActivity(db, fallback, fault, id, t) ==
  LET index == FindIndex(db.rs, LAMBDA x : x.id = id) IN
  IF fallback THEN Local(db, LocalUpdateSessionActivity(db.ls, db.lm, id, t), NoError)
  ELSE IF fault # "none"
    THEN Local(db, LocalUpdateSessionActivity(db.ls, db.lm, id, t), RequestError(fault))
    ELSE IF index = 0
      THEN Local(db, LocalUpdateSessionActivity(db.ls, db.lm, id, t), NotFound)
      ELSE Remote([db EXCEPT !.rs[index].lastActivity = IsoString(t),
                             !.rs[index].updatedAt = IsoString(t)], Undefined)

\* ClientGetMessages that lets the error of the request reach its caller
ClientGetMessages_Rethrow(db, fallback, fault, sessionId) ==
  IF fallback THEN Local(db, LocalGetMessages(db.ls, db.lm, sessionId), NoError)
  ELSE IF fault # "none"
    THEN [db |-> db, res |-> RequestError(fault), served |-> "none",
          remoteErr |-> RequestError(fault)]
    ELSE Remote(db, SortByTime(Map(SelectSeq(db.rm, LAMBDA m : m.sessionId = sessionId),
                                   TransformMessage)))

ClientGetMessages(db, fallback, fault, sessionId) ==
  IF fallback THEN Local(db, LocalGetMessages(db.ls, db.lm, sessionId), NoError)
  ELSE IF fault # "none"
    THEN Local(db, LocalGetMessages(db.ls, db.lm, sessionId), RequestError(fault))
    ELSE Remote(db, SortByTime(Map(SelectSeq(db.rm, LAMBDA m : m.sessionId = sessionId),
                                   TransformMessage)))

\* MockAPIClient.incrementSessionMessageCount: getSession (fault faultGet),
\* then, for a session that was found, PUT messageCount + 1 (fault faultPut);
\* a failure of the PUT is logged and dropped.
ClientIncrementSessionMessageCount(db, faultGet, faultPut, sessionId, t) ==
  LET session == ClientGetSession(db, FALSE, faultGet, sessionId).res
      index == FindIndex(db.rs, LAMBDA x : x.id = sessionId)
  IN IF session = Null \/ faultPut # "none" \/ index = 0
       THEN db
       ELSE [db EXCEPT !.rs[index].messageCount = session.metadata.messageCount + 1,
                       !.rs[index].lastActivity = IsoString(t),
                       !.rs[index].updatedAt = IsoString(t)]

ClientCreateMessage(db, fallback, fault, faultGet, faultPut, message, id, t) ==
  LET created == JsonMessage(MessageData(message, id)) IN
  IF fallback THEN Local(db, LocalCreateMessage(db.ls, db.lm, message, id, t), NoError)
  ELSE IF fault # "none"
    THEN Local(db, LocalCreateMessage(db.ls, db.lm, message, id, t), RequestError(fault))
    ELSE Remote(ClientIncrementSessionMessageCount(
                  [db EXCEPT !.rm = Append(@, created)],
                  faultGet, faultPut, message.sessionId, t),
                TransformMessage(created))

\* the body of PUT /messages/:id: JSON.stringify drops the undefined members
RemoteUpdateMessage(old, updates) ==
  LET field(name, was) ==
        IF ResponseField(updates, name).kind = "undefined"
          THEN was ELSE JsonValue(ResponseField(updates, name))
  IN [old EXCEPT !.content = IF updates.content.kind = "undefined"
                              THEN @ ELSE updates.content.s,
                 !.responseType = field("type", @),
                 !.responseContent = field("content", @),
                 !.responseMetadata = field("metadata", @)]

ClientUpdateMessage(db, fallback, fault, id, updates) ==
  LET index == FindIndex(db.rm, LAMBDA m : m.id = id) IN
  IF fallback THEN Local(db, LocalUpdateMessage(db.ls, db.lm, id, updates), NoError)
  ELSE IF fault # "none"
    THEN Local(db, LocalUpdateMessage(db.ls, db.lm, id, updates), RequestError(fault))
    ELSE IF index = 0
      THEN Local(db, LocalUpdateMessage(db.ls, db.lm, id, updates), NotFound)
      ELSE LET message == RemoteUpdateMessage(db.rm[index], updates) IN
             Remote([db EXCEPT !.rm[index] = message], TransformMessage(message))

ClientDeleteMessage(db, fallback, fault, id) ==
  LET index == FindIndex(db.rm, LAMBDA m : m.id = id) IN
  IF fallback THEN Local(db, LocalDeleteMessage(db.ls, db.lm, id), NoError)
  ELSE IF fault # "none"
    THEN Local(db, LocalDeleteMessage(db.ls, db.lm, id), RequestError(fault))
    ELSE IF index = 0
      THEN Local(db, LocalDeleteMessage(db.ls, db.lm, id), NotFound)
      ELSE Remote([db EXCEPT !.rm = SelectSeq(@, LAMBDA m : m.id # id)], Undefined)

ClientHealthCheck(db, fallback, fault) ==
  IF fallback THEN Local(db, LocalHealthCheck(db.ls, db.lm), NoError)
  ELSE IF fault # "none"
    THEN Local(db, LocalHealthCheck(db.ls, db.lm), RequestError(fault))
    ELSE Remote(db, Bool(TRUE))

\* clearAllData deletes, through deleteMessage and deleteSession, the
\* messages it read from the service and the sessions getSessions returned
RECURSIVE DeleteMessages(_, _, _)
DeleteMessages(db, fault, ids) ==
  IF ids = <<>> THEN db
  ELSE DeleteMessages(ClientDeleteMessage(db, FALSE, fault, Head(ids)).db, fault, Tail(ids))

RECURSIVE DeleteSessions(_, _, _)
DeleteSessions(db, fault, ids) ==
  IF ids = <<>> THEN db
  ELSE DeleteSessions(ClientDeleteSession(db, FALSE, fault, Head(ids)).db, fault, Tail(ids))

\* faultSessions is the fault of getSessions' request, fault that of the
\* request for the messages, faultDelete that of the delete requests
ClientClearAllData(db, fallback, faultSessions, fault, faultDelete) ==
  LET allSessions == ClientGetSessions(db, FALSE, faultSessions).res
      afterMessages == DeleteMessages(db, faultDelete, Map(db.rm, LAMBDA m : m.id))
  IN
  IF fallback THEN Local(db, LocalClearAllData(db.ls, db.lm), NoError)
  ELSE IF fault # "none"
    THEN Local(db, LocalClearAllData(db.ls, db.lm), RequestError(fault))
    ELSE Remote(DeleteSessions(afterMessages, faultDelete, Map(allSessions, LAMBDA x : x.id)),
                Undefined)

(***************************************************************************)
(* The state of a fresh client: nothing stored, no operation made.         *)
(***************************************************************************)
NoOp == [op |-> "none"]
NoPoll == [sessionId |-> 0, messageId |-> 0, at |-> 0]
NoReply == [method |-> "none"]

\* ChatProvider before its mount effect
InitStoreState ==
  /\ sessions = <<>>
  /\ currentSessionId = 0
  /\ isLoading = FALSE
  /\ error = Null
  /\ currentMessages = <<>>
  /\ sendingMessageRef = FALSE
  /\ savedSessionId = 0
  /\ mounted = FALSE
  /\ sends = <<>>
  /\ currentMessageId = 0
  /\ uiMounted = TRUE
  /\ intervalRef = FALSE
  /\ lastPoll = NoPoll
  /\ thinkingStatus = <<>>
  /\ statusReply = NoReply

InitDbEmpty ==
  /\ remoteSessions = <<>>
  /\ remoteMessages = <<>>
  /\ localSessions = <<>>
  /\ localMessages = <<>>
  /\ nextId = 1
  /\ lastOp = NoOp

CurrentDb == Db(remoteSessions, remoteMessages, localSessions, localMessages)

\* the lists after an operation with outcome r
Commit(r) ==
  /\ remoteSessions' = r.db.rs
  /\ remoteMessages' = r.db.rm
  /\ localSessions' = r.db.ls
  /\ localMessages' = r.db.lm

\* did the operation with outcome r store a message?
Inserted(r) ==
  Len(r.db.rm) + Len(r.db.lm) > Len(remoteMessages) + Len(localMessages)

\* The record of an operation: its name and argument, the id and the time it
\* had at hand, which store served it, the error of its remote call, its
\* result, and whether it stored a message.
Observe(op, arg, r) ==
  lastOp' = [op |-> op, arg |-> arg, id |-> nextId, at |-> now,
             served |-> r.served, remoteErr |-> r.remoteErr, res |-> r.res,
             inserted |-> Inserted(r)]

(***************************************************************************)
(* SpecClient: one MockAPIClient, its operations called one after another  *)
(* with any arguments, each remote request meeting any fault.              *)
(***************************************************************************)
Names == {"Chat"}
NewNames == {"Renamed"}
Ids == 1..MaxClientIds
SessionIds == 1..(MaxClientIds - 1)
\* every catch block treats all errors of an inner request alike
InnerFaults == {"none", "network"}

\* the responses a message may carry: none, a text, a text with metadata
\* that holds a Date, an object whose key starts with text
ResponseDatas(t) ==
  {Undefined,
   [type |-> Str("text"), content |-> Str("Hi"), metadata |-> Undefined],
   [type |-> Str("text"), content |-> Str("Yo"),
    metadata |-> Obj([timestamp |-> Date(t)])],
   [type |-> Str("json"), content |-> Obj([text1 |-> Str("a")]), metadata |-> Undefined]}

\* the messages the store creates: what the user typed, and the assistant's
\* reply, whose content is left empty for its responseData
Messages(t) ==
  [sessionId : SessionIds, content : {"Hello"}, type : {"user"},
   timestamp : {Date(t)}, responseData : {Undefined}]
  \cup
  [sessionId : SessionIds, content : {""}, type : {"assistant"},
   timestamp : {Date(t)}, responseData : ResponseDatas(t) \ {Undefined}]

Updates(t) ==
  [content : {Undefined, Str("Bye")},
   responseData : {Undefined,
                   [type |-> Str("text"), content |-> Str("Hi"), metadata |-> Undefined]}]

InitClient ==
  /\ now = 0
  /\ timeout = DefaultTimeout
  /\ retryAttempts = DefaultRetryAttempts
  /\ retryDelay = DefaultRetryDelay
  /\ rPc = "idle"
  /\ attempt = 0
  /\ calls = 0
  /\ outstanding = 0
  /\ lastErr = NoError
  /\ rResult = Undefined
  /\ timerDue = 0
  /\ lastFailAt = 0
  /\ lastStartAt = 0
  /\ backoffs = 0
  /\ InitDbEmpty
  /\ useFallback \in BOOLEAN
  /\ InitStoreState

\* An operation is called by a caller that holds no result; the caller then
\* takes the result and goes on.
Idle == lastOp = NoOp
ClientFrame == UNCHANGED <<now, n8nVars, useFallback, storeVars, statusVars>>

CallerContinues ==
  /\ lastOp # NoOp
  /\ lastOp' = NoOp
  /\ UNCHANGED <<now, n8nVars, dbVars, storeVars, statusVars>>

GetSessions ==
  /\ Idle
  /\ \E fault \in Faults :
       LET r == ClientGetSessions(CurrentDb, useFallback, fault) IN
         /\ Commit(r)
         /\ Observe("getSessions", Undefined, r)
  /\ UNCHANGED nextId
  /\ ClientFrame

GetSession ==
  /\ Idle
  /\ \E fault \in Faults, id \in Ids :
       LET r == ClientGetSession(CurrentDb, useFallback, fault, id) IN
         /\ Commit(r)
         /\ Observe("getSession", id, r)
  /\ UNCHANGED nextId
  /\ ClientFrame

CreateSession ==
  /\ Idle
  /\ nextId <= MaxClientIds
  /\ \E fault \in Faults, name \in Names :
       LET r == ClientCreateSession(CurrentDb, useFallback, fault, name, nextId, now) IN
         /\ Commit(r)
         /\ Observe("createSession", name, r)
  /\ nextId' = nextId + 1
  /\ ClientFrame

UpdateSession ==
  /\ Idle
  /\ \E fault \in Faults, id \in Ids, name \in NewNames :
       LET r == ClientUpdateSession(CurrentDb, useFallback, fault, id, name, now) IN
         /\ Commit(r)
         /\ Observe("updateSession", [id |-> id, name |-> name], r)
  /\ UNCHANGED nextId
  /\ ClientFrame

DeleteSession ==
  /\ Idle
  /\ \E fault \in Faults, id \in Ids :
       LET r == ClientDeleteSession(CurrentDb, useFallback, fault, id) IN
         /\ Commit(r)
         /\ Observe("deleteSession", id, r)
  /\ UNCHANGED nextId
  /\ ClientFrame

UpdateSessionActivity ==
  /\ Idle
  /\ \E fault \in Faults, id \in Ids :
       LET r == ClientUpdateSessionActivity(CurrentDb, useFallback, fault, id, now) IN
         /\ Commit(r)
         /\ Observe("updateSessionActivity", id, r)
  /\ UNCHANGED nextId
  /\ ClientFrame

GetMessages ==
  /\ Idle
  /\ \E fault \in Faults, sessionId \in SessionIds :
       LET r == ClientGetMessages(CurrentDb, useFallback, fault, sessionId) IN
         /\ Commit(r)
         /\ Observe("getMessages", sessionId, r)
  /\ UNCHANGED nextId
  /\ ClientFrame

CreateMessage ==
  /\ Idle
  /\ nextId <= MaxClientIds
  /\ \E fault \in Faults, faultGet \in InnerFaults, faultPut \in InnerFaults,
        message \in Messages(now) :
       LET r == ClientCreateMessage(CurrentDb, useFallback, fault, faultGet, faultPut,
                                    message, nextId, now) IN
         /\ Commit(r)
         /\ Observe("createMessage", message, r)
  /\ nextId' = nextId + 1
  /\ ClientFrame

UpdateMessage ==
  /\ Idle
  /\ \E fault \in Faults, id \in Ids, updates \in Updates(now) :
       LET r == ClientUpdateMessage(CurrentDb, useFallback, fault, id, updates) IN
         /\ Commit(r)
         /\ Observe("updateMessage", [id |-> id, updates |-> updates], r)
  /\ UNCHANGED nextId
  /\ ClientFrame

DeleteMessage ==
  /\ Idle
  /\ \E fault \in Faults, id \in Ids :
       LET r == ClientDeleteMessage(CurrentDb, useFallback, fault, id) IN
         /\ Commit(r)
         /\ Observe("deleteMessage", id, r)
  /\ UNCHANGED nextId
  /\ ClientFrame

HealthCheck ==
  /\ Idle
  /\ \E fault \in Faults :
       LET r == ClientHealthCheck(CurrentDb, useFallback, fault) IN
         /\ Commit(r)
         /\ Observe("healthCheck", Undefined, r)
  /\ UNCHANGED nextId
  /\ ClientFrame

ClearAllData ==
  /\ Idle
  /\ \E faultSessions \in InnerFaults, fault \in Faults, faultDelete \in InnerFaults :
       LET r == ClientClearAllData(CurrentDb, useFallback, faultSessions, fault,
                                   faultDelete) IN
         /\ Commit(r)
         /\ Observe("clearAllData", Undefined, r)
  /\ UNCHANGED nextId
  /\ ClientFrame

ClientTick ==
  /\ Tick(MaxClientTime)
  /\ UNCHANGED <<n8nVars, dbVars, opVars, storeVars, statusVars>>

NextClient ==
  \/ GetSessions
  \/ GetSession
  \/ CreateSession
  \/ UpdateSession
  \/ DeleteSession
  \/ UpdateSessionActivity
  \/ GetMessages
  \/ CreateMessage
  \/ UpdateMessage
  \/ DeleteMessage
  \/ HealthCheck
  \/ ClearAllData
  \/ CallerContinues
  \/ ClientTick

SpecClient == InitClient /\ [][NextClient]_vars

\* a step of SpecClient that makes a client operation
OperationStep == lastOp = NoOp /\ lastOp' # NoOp

\* what the operation of LocalStorageMockAPIClient that corresponds to the
\* call op yields on the lists ls and lm
LocalOutcome(op, ls, lm) ==
  CASE op.op = "getSessions" -> LocalGetSessions(ls, lm)
    [] op.op = "getSession" -> LocalGetSession(ls, lm, op.arg)
    [] op.op = "createSession" -> LocalCreateSession(ls, lm, op.arg, op.id, op.at)
    [] op.op = "updateSession" -> LocalUpdateSession(ls, lm, op.arg.id, op.arg.name, op.at)
    [] op.op = "deleteSession" -> LocalDeleteSession(ls, lm, op.arg)
    [] op.op = "updateSessionActivity" -> LocalUpdateSessionActivity(ls, lm, op.arg, op.at)
    [] op.op = "getMessages" -> LocalGetMessages(ls, lm, op.arg)
    [] op.op = "createMessage" -> LocalCreateMessage(ls, lm, op.arg, op.id, op.at)
    [] op.op = "updateMessage" -> LocalUpdateMessage(ls, lm, op.arg.id, op.arg.updates)
    [] op.op = "deleteMessage" -> LocalDeleteMessage(ls, lm, op.arg)
    [] op.op = "healthCheck" -> LocalHealthCheck(ls, lm)
    [] OTHER -> LocalClearAllData(ls, lm)

\* the caller of op received what the local store yields, and the local
\* lists are what the local operation left
ServedLocally(op, ls, lm, lsAfter, lmAfter) ==
  /\ op.res = LocalOutcome(op, ls, lm).res
  /\ lsAfter = LocalOutcome(op, ls, lm).ls
  /\ lmAfter = LocalOutcome(op, ls, lm).lm

\* C5: a createMessage(msg) that returned is followed by a getMessages of
\* msg.sessionId whose own request meets no fault: the list it returns holds
\* a message with the id that createMessage returned and with the content,
\* type and responseData of msg.
C5_RoundTrip ==
  (lastOp.op = "createMessage") =>
    LET got == ClientGetMessages(CurrentDb, useFallback, "none",
                                 lastOp.arg.sessionId).res
    IN \E i \in 1..Len(got) :
         /\ got[i].id = lastOp.res.id
         /\ got[i].content = lastOp.arg.content
         /\ got[i].type = lastOp.arg.type
         /\ got[i].responseData = lastOp.arg.responseData

\* C6 as stated: whenever the remote call of an operation throws, the caller
\* receives what the same operation yields on the local store.
C6_Original ==
  [][(OperationStep /\ lastOp'.remoteErr # NoError) =>
       ServedLocally(lastOp', localSessions, localMessages,
                     localSessions', localMessages')]_vars

\* C6: whenever the remote call of an operation throws, the operation is
\* executed on the local store and the caller receives its result, never the
\* error of the remote call; except that getSession answers a 404 of the
\* service with null and leaves the local store alone.
C6_FallbackOnError ==
  [][(OperationStep /\ lastOp'.remoteErr # NoError) =>
       IF lastOp'.op = "getSession" /\ lastOp'.remoteErr.status = 404
         THEN /\ lastOp'.res = Null
              /\ lastOp'.served = "none"
              /\ UNCHANGED <<localSessions, localMessages>>
         ELSE /\ lastOp'.served = "local"
              /\ ServedLocally(lastOp', localSessions, localMessages,
                               localSessions', localMessages')
              /\ UNCHANGED <<remoteSessions, remoteMessages>>
              /\ lastOp'.op \in {"updateSession", "updateMessage"} =>
                   lastOp'.res # lastOp'.remoteErr]_vars

C6_Witness ==
  /\ lastOp.op = "updateSession"
  /\ lastOp.remoteErr = RequestError("status500")
  /\ lastOp.served = "local"
  /\ ~IsError(lastOp.res)
  /\ lastOp.res.name = "Renamed"

\* the messages of both stores
StoredMessages == remoteMessages \o localMessages
\* the sessions of both stores
StoredSessions == remoteSessions \o localSessions

\* C7 as stated: a createMessage whose sessionId, content and type are those
\* of a stored message whose timestamp is within 1 second stores nothing and
\* returns that record.
C7_Original ==
  [][(/\ OperationStep
      /\ lastOp'.op = "createMessage"
      /\ \E i \in 1..Len(StoredMessages) :
           /\ StoredMessages[i].sessionId = lastOp'.arg.sessionId
           /\ StoredMessages[i].content = lastOp'.arg.content
           /\ StoredMessages[i].type = lastOp'.arg.type
           /\ Abs(StoredMessages[i].timestamp.ms - lastOp'.arg.timestamp.ms) <= 1000)
     => /\ ~lastOp'.inserted
        /\ \E i \in 1..Len(StoredMessages) : StoredMessages[i].id = lastOp'.res.id]_vars

\* C7: a createMessage served by the local store, whose sessionId, content
\* and type are those of a message of the local store whose timestamp is less
\* than 1000 ms away, stores nothing and returns such a stored record.
C7_LocalDuplicateSuppressed ==
  [][(/\ OperationStep
      /\ lastOp'.op = "createMessage"
      /\ lastOp'.served = "local"
      /\ \E i \in 1..Len(localMessages) :
           /\ localMessages[i].sessionId = lastOp'.arg.sessionId
           /\ localMessages[i].content = lastOp'.arg.content
           /\ localMessages[i].type = lastOp'.arg.type
           /\ Abs(localMessages[i].timestamp.ms - lastOp'.arg.timestamp.ms) < 1000)
     => /\ ~lastOp'.inserted
        /\ UNCHANGED <<localSessions, localMessages>>
        /\ \E i \in 1..Len(localMessages) :
             /\ localMessages[i].id = lastOp'.res.id
             /\ localMessages[i].sessionId = lastOp'.arg.sessionId
             /\ localMessages[i].content = lastOp'.arg.content
             /\ localMessages[i].type = lastOp'.arg.type
             /\ Abs(localMessages[i].timestamp.ms - lastOp'.arg.timestamp.ms) < 1000]_vars

C7_Witness ==
  /\ lastOp.op = "createMessage"
  /\ lastOp.served = "local"
  /\ ~lastOp.inserted
  /\ lastOp.res.id # lastOp.id
  /\ Len(localMessages) = 1

\* the sessions of the store that served the operation of this step, before
\* and after it, are before and after; the session sessionId of that store
\* has one message more and the activity time of the step
CountedIn(before, after, sessionId) ==
  \A k \in 1..Len(before) :
    before[k].id = sessionId =>
      /\ after[k].messageCount = before[k].messageCount + 1
      /\ after[k].lastActivity = IsoString(now)

\* C15: a createMessage that stores a new message adds 1 to the persisted
\* messageCount of the message's session, in the store that served the
\* creation, and sets the session's lastActivity to the time of the call.
C15_CountIncremented ==
  [][(/\ OperationStep
      /\ lastOp'.op = "createMessage"
      /\ lastOp'.inserted)
     => IF lastOp'.served = "remote"
          THEN CountedIn(remoteSessions, remoteSessions', lastOp'.arg.sessionId)
          ELSE CountedIn(localSessions, localSessions', lastOp'.arg.sessionId)]_vars

\* a store, given by its sessions and its messages, holds nothing of the
\* session id
GoneFrom(sessionList, messageList, id) ==
  /\ \A k \in 1..Len(sessionList) : sessionList[k].id # id
  /\ \A k \in 1..Len(messageList) : messageList[k].sessionId # id

\* C16: after deleteSession(id) of a stored session, the store that served
\* the deletion holds neither the session nor a message of it, and a
\* getMessages(id) that follows, its request answered by the service, returns
\* the empty list.
C16_CascadingDelete ==
  [][(/\ OperationStep
      /\ lastOp'.op = "deleteSession"
      /\ \E k \in 1..Len(StoredSessions) : StoredSessions[k].id = lastOp'.arg)
     => /\ IF lastOp'.served = "remote"
             THEN GoneFrom(remoteSessions', remoteMessages', lastOp'.arg)
             ELSE GoneFrom(localSessions', localMessages', lastOp'.arg)
        /\ ClientGetMessages(Db(remoteSessions', remoteMessages',
                                localSessions', localMessages'),
                             useFallback, "none", lastOp'.arg).res = <<>>]_vars

(***************************************************************************)
(* SpecRetry: a client with any configuration, one call at a time.         *)
(***************************************************************************)
InitRetry ==
  /\ now = 0
  /\ timeout \in Timeouts
  /\ retryAttempts \in (0..MaxRetryAttempts) \cup {DefaultRetryAttempts}
  /\ retryDelay \in RetryDelays
  /\ rPc = "idle"
  /\ attempt = 0
  /\ calls = 0
  /\ outstanding = 0
  /\ lastErr = NoError
  /\ rResult = Undefined
  /\ timerDue = 0
  /\ lastFailAt = 0
  /\ lastStartAt = 0
  /\ backoffs = 0
  /\ InitDbEmpty
  /\ useFallback = TRUE
  /\ InitStoreState

SendMessageWithRetry ==
  /\ rPc \in {"idle", "returned", "thrown"}
  /\ RetryBegin
  /\ UNCHANGED <<now, dbVars, opVars, storeVars, statusVars>>

FetchSettles ==
  /\ \E outcome \in FetchOutcomes : RetrySettle(outcome)
  /\ UNCHANGED <<now, dbVars, opVars, storeVars, statusVars>>

BackoffElapsed ==
  /\ RetryResume
  /\ UNCHANGED <<now, dbVars, opVars, storeVars, statusVars>>

ClockTick ==
  /\ Tick(MaxTime)
  /\ UNCHANGED <<n8nVars, dbVars, opVars, storeVars, statusVars>>

NextRetry ==
  \/ SendMessageWithRetry
  \/ FetchSettles
  \/ BackoffElapsed
  \/ ClockTick

SpecRetry == InitRetry /\ [][NextRetry]_vars

\* C8: one sendMessageWithRetry call invokes sendMessage at most retryAttempts
\* times, and a call whose attempts all failed throws the error of the last
\* attempt it made.
C8_BoundedAttempts ==
  /\ calls <= retryAttempts
  /\ (rPc = "thrown" /\ calls > 0) =>
       /\ rResult.kind \in {"N8NError", "Error"}
       /\ rResult.attempt = calls
       /\ rResult = lastErr

C8_Witness ==
  /\ rPc = "thrown"
  /\ retryAttempts = DefaultRetryAttempts
  /\ calls = DefaultRetryAttempts
  /\ rResult.type = "server"

\* C9: an attempt that fails with a validation N8NError ends the call: the
\* error is thrown to the caller, no backoff wait follows it and no further
\* attempt is made.
C9_ValidationNotRetried ==
  (lastErr.kind = "N8NError" /\ lastErr.type = "validation") =>
    /\ rPc = "thrown"
    /\ rResult = lastErr
    /\ calls = lastErr.attempt
    /\ backoffs = calls - 1

C9_Witness ==
  /\ rPc = "thrown"
  /\ retryAttempts = DefaultRetryAttempts
  /\ calls = 1
  /\ backoffs = 0
  /\ rResult = N8NError("validation", 1)

\* C10: attempts of one call never overlap: at most one webhook request is
\* outstanding, and attempt k+1 starts only after attempt k has failed and
\* retryDelay * k milliseconds have passed since that failure.
C10_SequentialAttempts ==
  /\ outstanding <= 1
  /\ (outstanding = 1) <=> (rPc = "attempt")
  /\ (rPc = "attempt" /\ attempt > 1) =>
       /\ lastErr.kind = "N8NError"
       /\ lastErr.attempt = attempt - 1
       /\ lastStartAt >= lastFailAt + retryDelay * (attempt - 1)

C10_Witness ==
  /\ rPc = "attempt"
  /\ attempt = 3
  /\ retryDelay = DefaultRetryDelay
  /\ lastStartAt = lastFailAt + 2 * DefaultRetryDelay

\* C11: a webhook request is never outstanding beyond the configured
\* deadline: when config.timeout milliseconds have passed since sendMessage
\* issued its request, the request has been abandoned and the call has
\* failed.
C11_DeadlineEnforced ==
  (rPc = "attempt") => now - lastStartAt <= timeout


(***************************************************************************)
(* N8NClient: the normalisation of a webhook response.                     *)
(***************************************************************************)
\* The lines of the model that begin or end with white space or are empty, as
\* their spaces and their word; every other line of the model is one word,
\* free of white space.
LineChars ==
  (" Hi" :> <<" ", "Hi">>) @@ ("Hi " :> <<"Hi", " ">>) @@ (" " :> <<" ">>) @@
  ("" :> <<>>)

CharsOf(line) == IF line \in DOMAIN LineChars THEN LineChars[line] ELSE <<line>>

\* String.prototype.trim, on the characters of a line
RECURSIVE Trim(_)
Trim(chars) ==
  IF chars = <<>> THEN chars
  ELSE IF Head(chars) = " " THEN Trim(Tail(chars))
  ELSE IF chars[Len(chars)] = " " THEN Trim(SubSeq(chars, 1, Len(chars) - 1))
  ELSE chars

\* content.split('\n') and lines.join('\n')
Split(content) == IF "lines" \in DOMAIN content THEN content.lines ELSE <<content.s>>
Join(lines) ==
  IF lines = <<>> THEN Str("")
  ELSE IF Len(lines) = 1 THEN Str(lines[1])
  ELSE Text(lines)

\* DeduplicatedLines that compares the lines as they are written
RECURSIVE DeduplicatedLines_Untrimmed(_, _)
DeduplicatedLines_Untrimmed(lines, seenLines) ==
  IF lines = <<>> THEN <<>>
  ELSE LET line == Head(lines)
       IN  IF Trim(CharsOf(line)) = <<>>
             THEN <<line>> \o DeduplicatedLines_Untrimmed(Tail(lines), seenLines)
           ELSE IF line \notin seenLines
             THEN <<line>> \o DeduplicatedLines_Untrimmed(Tail(lines), seenLines \cup {line})
           ELSE DeduplicatedLines_Untrimmed(Tail(lines), seenLines)

\* the loop of deduplicateContent: the lines kept of the lines that remain,
\* given the trimmed lines seen so far
RECURSIVE DeduplicatedLines(_, _)
DeduplicatedLines(lines, seenLines) ==
  IF lines = <<>> THEN <<>>
  ELSE LET line == Head(lines)
           trimmedLine == Trim(CharsOf(line))
       IN  IF trimmedLine = <<>>
             THEN <<line>> \o DeduplicatedLines(Tail(lines), seenLines)
           ELSE IF trimmedLine \notin seenLines
             THEN <<line>> \o DeduplicatedLines(Tail(lines), seenLines \cup {trimmedLine})
           ELSE DeduplicatedLines(Tail(lines), seenLines)

\* DeduplicateContent that takes the first line as seen before the loop
DeduplicateContent_FirstSeen(content) ==
  IF content.kind # "string" THEN content
  ELSE Join(DeduplicatedLines(Split(content), {Trim(CharsOf(Head(Split(content))))}))

DeduplicateContent(content) ==
  IF content.kind # "string" THEN content
  ELSE Join(DeduplicatedLines(Split(content), {}))

\* data[key]
Get(data, key) ==
  IF data.kind = "object" /\ key \in DOMAIN data.fields
    THEN data.fields[key] ELSE Undefined

\* typeof v === 'object'
TypeofObject(v) == v.kind \in {"object", "array", "null"}

IsMixedContent(content) ==
  /\ content.kind = "array"
  /\ \E i \in 1..Len(content.items) :
       LET item == content.items[i] IN
         /\ Truthy(item)
         /\ item.kind = "object"
         /\ \E key \in DOMAIN item.fields :
              StartsWith(key, TextPrefix) \/ StartsWith(key, ChartPrefix)

\* String(data) of a value that is falsy or not an object
StringOf(data) ==
  CASE data.kind = "string" -> data
    [] data.kind = "number" -> Str(ToString(data.n))
    [] data.kind = "boolean" -> Str(IF data.b THEN "true" ELSE "false")
    [] OTHER -> Str(data.kind)

\* The strings of the model that are JSON texts of an object or an array,
\* with what JSON.parse makes of them; JSON.parse of any other string of the
\* model throws or gives a value that is not an object.
JsonTexts ==
  ("{\"content\":\"Hi\",\"messageType\":\"chart\",\"type\":\"interim\"}" :>
     Obj([content |-> Str("Hi"), messageType |-> Str("chart"), type |-> Str("interim")]))
  @@ ("{\"messageType\":\"bar\",\"type\":\"foo\"}" :>
     Obj([messageType |-> Str("bar"), type |-> Str("foo")]))
  @@ ("[{\"text1\":\"Hi\"}]" :> Arr(<<Obj([text1 |-> Str("Hi")])>>))

\* whether JSON.parse(output) returns a truthy object, and the object
ParsesToObject(output) == "s" \in DOMAIN output /\ output.s \in DOMAIN JsonTexts
JsonParse(output) == JsonTexts[output.s]

MessageTypes == {"text", "json", "image", "chart", "error", "mixed"}
ResponseTypes == {"interim", "final"}

\* the validation of messageType and of type that ends validateResponse
ValidMessageType(messageType) ==
  IF messageType \in {Str(k) : k \in MessageTypes} THEN messageType ELSE Str("text")
ValidType(type) ==
  IF type \in {Str(k) : k \in ResponseTypes} THEN type ELSE Str("final")

\* validateResponse at time t
ValidateResponse(data, t) ==
  IF ~Truthy(data) \/ ~TypeofObject(data)
    THEN [type |-> Str("final"),
          messageType |-> Str("text"),
          content |-> StringOf(data),
          metadata |-> Obj([timestamp |-> Date(t)])]
  ELSE IF /\ Truthy(Get(data, "type"))
          /\ Truthy(Get(data, "messageType"))
          /\ Get(data, "content") # Undefined
    THEN [type |-> Get(data, "type"),
          messageType |-> Get(data, "messageType"),
          content |-> IF Get(data, "messageType") = Str("text")
                        THEN DeduplicateContent(Get(data, "content"))
                        ELSE Get(data, "content"),
          metadata |-> OrElse(Get(data, "metadata"), Obj([timestamp |-> Date(t)]))]
  ELSE
    LET output == Get(data, "output")
        content0 ==
          OrElse(Get(data, "content"),
            OrElse(Get(data, "message"),
              OrElse(Get(data, "response"),
                OrElse(Get(data, "text"), OrElse(output, data)))))
        messageType0 == OrElse(Get(data, "messageType"), OrElse(Get(data, "format"), Str("text")))
        type0 == OrElse(Get(data, "type"), Str("final"))
        parsed == Truthy(output) /\ output.kind = "string" /\ ParsesToObject(output)
        parsedOutput == JsonParse(output)
        content == IF parsed THEN OrElse(Get(parsedOutput, "content"), parsedOutput)
                   ELSE content0
        messageType1 == IF parsed THEN OrElse(Get(parsedOutput, "messageType"), messageType0)
                        ELSE messageType0
        type1 == IF parsed THEN OrElse(Get(parsedOutput, "type"), type0) ELSE type0
        messageType2 == IF IsMixedContent(content) THEN Str("mixed")
                        ELSE IF content.kind = "array" THEN Str("json")
                        ELSE messageType1
        messageType == ValidMessageType(messageType2)
    IN  [type |-> ValidType(type1),
         messageType |-> messageType,
         content |-> IF messageType = Str("text") THEN DeduplicateContent(content)
                     ELSE content,
         metadata |-> OrElse(Get(data, "metadata"),
                             Obj([timestamp |-> Date(t),
                                  source |-> Str("n8n-webhook"),
                                  originalResponse |-> data]))]

(***************************************************************************)
(* ChatProvider.  The store owns one N8NClient, configured from API_CONFIG, *)
(* and one MockAPIClient.  A request of the MockAPIClient takes effect and  *)
(* is answered in one step; with useFallback no request is made and the     *)
(* operation completes within the step of its caller.  The webhook request  *)
(* stays outstanding until it settles.  The current session's messages are  *)
(* reloaded by the effect that follows a change of state.currentSessionId.  *)
(* The mount effect (loadSessions) runs before anything else is called.     *)
(***************************************************************************)
ApiTimeout == 30000
ApiRetryAttempts == 3
ApiRetryDelay == 1000

MaxSends == 2
MaxStoreIds == 2
MaxRetryId == 4
StoreTickMs == 1000
MaxStoreTime == 3000

Contents == {"Hello"}
\* the requests of the store's MockAPIClient are answered by the service
StoreFaults == {"none"}
\* what fetch does with the webhook request of the store: the rejections that
\* sendMessage turns into timeout and network errors are retried as a server
\* error is
StoreOutcomes == {"ok", "status", "rejectValidation", "rejectOther"}
\* the decoded bodies of the webhook's answers to the store
WebhookBodies == {Obj([output |-> Text(<<"Hi", "Hi", "There">>)])}
\* the responses of the webhook at time t, as validateResponse returns them
Responses(t) == {ValidateResponse(body, t) : body \in WebhookBodies}

\* n8nUtils.formatError
FormatError(err) ==
  CASE err.type = "network" ->
         "Network connection failed. Please check your internet connection."
    [] err.type = "timeout" ->
         "Request timed out. The workflow may be taking longer than expected."
    [] err.type = "server" -> "Server error occurred. Please try again later."
    [] err.type = "validation" -> "Invalid data format. Please contact support."
    [] OTHER -> "An unexpected error occurred. Please try again."

\* SendErrorMessage that formats every error as an error of the webhook client
SendErrorMessage_AlwaysFormatted(err) == FormatError(err)

\* the message of the catch block of sendMessage
SendErrorMessage(err) ==
  IF err.kind = "N8NError" THEN FormatError(err) ELSE "Failed to send message"

\* the updater that sendMessage passes to setCurrentMessages
AppendIfNew(prev, m) ==
  IF \E i \in 1..Len(prev) : prev[i].id = m.id THEN prev ELSE Append(prev, m)

UserMessage(sessionId, content, t) ==
  [sessionId |-> sessionId, content |-> content, type |-> "user",
   timestamp |-> Date(t), responseData |-> Undefined]

\* AssistantMessage that reads the session that is active when it is built
AssistantMessage_ActiveSession(sessionId, response, t) ==
  [sessionId |-> currentSessionId, content |-> "", type |-> "assistant",
   timestamp |-> Date(t),
   responseData |-> [type |-> response.messageType, content |-> response.content,
                     metadata |-> response.metadata]]

\* the assistant message that sendMessage builds from the response
AssistantMessage(sessionId, response, t) ==
  [sessionId |-> sessionId, content |-> "", type |-> "assistant",
   timestamp |-> Date(t),
   responseData |-> [type |-> response.messageType, content |-> response.content,
                     metadata |-> response.metadata]]

\* the update of state.sessions that ends a successful sendMessage
AddTwoMessages(list, sessionId) ==
  [i \in 1..Len(list) |->
     IF list[i].id = sessionId
       THEN [list[i] EXCEPT !.metadata.messageCount = @ + 2]
       ELSE list[i]]

\* what loadMessages puts in currentMessages when the current session is id
MessagesOf(db, id, fault) ==
  IF id = 0 THEN <<>> ELSE ClientGetMessages(db, useFallback, fault, id).res

\* the current messages after state.currentSessionId went from old to new
ReloadMessages(db, old, new, fault) ==
  IF new = old THEN currentMessages ELSE MessagesOf(db, new, fault)

\* FirstId that finds no session
FirstId_None(list) == 0

\* the first session of a list, null (0) for an empty list
FirstId(list) == IF list = <<>> THEN 0 ELSE list[1].id

\* SendDecision without the check of the ref
SendDecision_NoGuard(sessionId, sending) ==
  IF sessionId = 0 THEN "noSession" ELSE "accepted"

\* the two early returns of sendMessage
SendDecision(sessionId, sending) ==
  IF sessionId = 0 THEN "noSession"
  ELSE IF sending THEN "dropped"
  ELSE "accepted"

\* RefWhileSending that leaves the ref unset
RefWhileSending_Unset == FALSE

\* sendingMessageRef.current once a call has passed the two checks
RefWhileSending == TRUE

\* CatchMessages that forgets the messages displayed
CatchMessages_Cleared(prev) == <<>>

\* the current messages after the catch block of sendMessage
CatchMessages(prev) == prev

InFlightPcs == {"userSave", "webhook", "assistantSave"}
InFlight == {i \in 1..Len(sends) : sends[i].pc \in InFlightPcs}

\* a sendMessage call: its position, the session and content it holds, the
\* ids of the messages it saved, the response and its time of arrival, and
\* whether it was made while another call had not resolved
SendCall(pc, sessionId, content) ==
  [pc |-> pc, sessionId |-> sessionId, content |-> content, at |-> now,
   userId |-> 0, assistantId |-> 0, response |-> Undefined, replyAt |-> 0,
   overlaps |-> InFlight # {}]

\* AwaitUserSave that calls the webhook without awaiting createMessage
AwaitUserSave_WebhookFirst(s, i) ==
  /\ sends' = [s EXCEPT ![i].pc = "webhook"]
  /\ RetryBegin

\* the call i of the list s awaits the createMessage of its user message
AwaitUserSave(s, i) ==
  /\ sends' = s
  /\ UNCHANGED n8nVars

\* Caught without the finally block
Caught_NoFinally(s, i, err) ==
  /\ error' = Str(SendErrorMessage(err))
  /\ isLoading' = FALSE
  /\ sendingMessageRef' = sendingMessageRef
  /\ sends' = [s EXCEPT ![i].pc = "failed"]
  /\ currentMessageId' = 0

\* the catch and finally blocks of the call i of the list s
Caught(s, i, err) ==
  /\ error' = Str(SendErrorMessage(err))
  /\ isLoading' = FALSE
  /\ sendingMessageRef' = FALSE
  /\ sends' = [s EXCEPT ![i].pc = "failed"]
  /\ currentMessageId' = 0

\* createMessage(userMessage) has answered the call i of the list s with
\* outcome r: the message is displayed and the webhook call begins
UserSaved(s, i, r, pending) ==
  /\ Commit(r)
  /\ nextId' = nextId + 1
  /\ RetryBegin
  /\ IF rPc' = "thrown"
       THEN /\ Caught([s EXCEPT ![i].userId = r.res.id], i, rResult')
            /\ currentMessages' = CatchMessages(AppendIfNew(currentMessages, r.res))
       ELSE /\ sends' = [s EXCEPT ![i].pc = "webhook", ![i].userId = r.res.id]
            /\ currentMessages' = AppendIfNew(currentMessages, r.res)
            /\ pending

\* createMessage(assistantMessage) has answered the call i with outcome r
Finished(s, i, r) ==
  /\ Commit(r)
  /\ nextId' = nextId + 1
  /\ currentMessages' = AppendIfNew(currentMessages, r.res)
  /\ sessions' = AddTwoMessages(sessions, s[i].sessionId)
  /\ isLoading' = FALSE
  /\ sendingMessageRef' = FALSE
  /\ sends' = [s EXCEPT ![i].pc = "done", ![i].assistantId = r.res.id]
  /\ currentMessageId' = 0
  /\ UNCHANGED error

\* the temporary id that sendMessage gives to the call i
TempMessageId(i) == i

(***************************************************************************)
(* ChatInterface calls useThinkingStatus(state.currentSessionId,           *)
(* currentMessageId, {enabled: state.isLoading}).  The effect of the hook  *)
(* runs with the commit that follows a change of its dependencies, within  *)
(* the step that changed them: its cleanup clears the interval, and it     *)
(* sets a new one, after a first fetchStatus, when enabled and both ids    *)
(* are set.                                                                *)
(***************************************************************************)
PollingInterval == 500

Poll(sessionId, messageId, t) == [sessionId |-> sessionId, messageId |-> messageId, at |-> t]

\* the condition of the effect
TimerWanted(enabled, sessionId, messageId) ==
  enabled /\ sessionId # 0 /\ messageId # 0

\* TimerAfterEffect whose cleanup leaves the interval set
TimerAfterEffect_NoCleanup(ui, rerun, wanted, was) == was \/ (rerun /\ wanted)

\* the interval after a commit: ui tells whether ChatInterface is mounted
\* after it, rerun whether the effect ran, wanted the condition of the effect
TimerAfterEffect(ui, rerun, wanted, was) ==
  IF ~ui THEN FALSE
  ELSE IF rerun THEN wanted
  ELSE was

\* the commit that ends a step, after which ChatInterface is mounted or not
EffectAfter(ui) ==
  LET rerun == ui /\ (\/ ~uiMounted
                      \/ <<isLoading', currentSessionId', currentMessageId'>>
                           # <<isLoading, currentSessionId, currentMessageId>>)
      wanted == TimerWanted(isLoading', currentSessionId', currentMessageId')
  IN  /\ uiMounted' = ui
      /\ intervalRef' = TimerAfterEffect(ui, rerun, wanted, intervalRef)
      /\ lastPoll' = IF rerun /\ wanted
                       THEN Poll(currentSessionId', currentMessageId', now)
                     ELSE IF ~intervalRef' THEN NoPoll
                     ELSE lastPoll

ThinkingEffect == EffectAfter(uiMounted)

\* the body of sendMessage(content)
Submit(content) ==
  /\  LET decision == SendDecision(currentSessionId, sendingMessageRef)
           i == Len(sends) + 1
           call == SendCall("userSave", currentSessionId, content)
       IN
       CASE decision = "noSession" ->
              /\ error' = Str("No session selected")
              /\ sends' = Append(sends, SendCall("noSession", 0, content))
              /\ UNCHANGED <<n8nVars, dbVars, isLoading, currentMessages,
                             sendingMessageRef, currentMessageId>>
         [] decision = "dropped" ->
              /\ sends' = Append(sends, SendCall("dropped", currentSessionId, content))
              /\ UNCHANGED <<n8nVars, dbVars, isLoading, currentMessages,
                             sendingMessageRef, error, currentMessageId>>
         [] OTHER ->
              IF useFallback
                THEN UserSaved(Append(sends, call), i,
                               ClientCreateMessage(CurrentDb, TRUE, "none", "none", "none",
                                                   UserMessage(currentSessionId, content, now),
                                                   nextId, now),
                               /\ sendingMessageRef' = RefWhileSending
                               /\ error' = Null
                               /\ isLoading' = TRUE
                               /\ currentMessageId' = TempMessageId(i))
                     /\ UNCHANGED useFallback
                ELSE /\ AwaitUserSave(Append(sends, call), i)
                     /\ sendingMessageRef' = RefWhileSending
                     /\ error' = Null
                     /\ isLoading' = TRUE
                     /\ currentMessageId' = TempMessageId(i)
                     /\ UNCHANGED <<dbVars, currentMessages>>
  /\ UNCHANGED <<now, sessions, currentSessionId, savedSessionId, mounted>>
  /\ ThinkingEffect
  /\ UNCHANGED statusVars

\* sendMessage is called
SendMessage ==
  /\ mounted
  /\ Len(sends) < MaxSends
  /\ \E content \in Contents : Submit(content)
  /\ UNCHANGED opVars

\* RetryContent that resubmits an empty message
RetryContent_Empty(message) == ""

\* the content that retryMessage resubmits
RetryContent(message) == message.content

\* retryMessage(messageId) is called: lastOp keeps the id, the length of the
\* list at the call and the sendMessage call that it made, 0 for none
RetryMessage ==
  /\ mounted
  /\ Len(sends) < MaxSends
  /\ \E messageId \in 1..MaxRetryId :
       LET index == FindIndex(currentMessages, LAMBDA m : m.id = messageId)
           retried(call) == [op |-> "retryMessage", id |-> messageId,
                             before |-> Len(currentMessages), call |-> call]
       IN  IF index = 0 \/ currentMessages[index].type # "user"
             THEN /\ lastOp' = retried(0)
                  /\ UNCHANGED <<now, n8nVars, dbVars, storeVars, statusVars>>
             ELSE /\ lastOp' = retried(Len(sends) + 1)
                  /\ Submit(RetryContent(currentMessages[index]))

\* the remote service answers (or fails) the createMessage of a user message
UserSaveSettles ==
  /\ \E i \in 1..Len(sends), fault \in StoreFaults :
       /\ sends[i].pc = "userSave"
       /\ UserSaved(sends, i,
                    ClientCreateMessage(CurrentDb, useFallback, fault, "none", "none",
                                        UserMessage(sends[i].sessionId, sends[i].content,
                                                    sends[i].at),
                                        nextId, now),
                    UNCHANGED <<error, isLoading, sendingMessageRef, currentMessageId>>)
  /\ UNCHANGED <<now, useFallback, opVars, sessions, currentSessionId,
                 savedSessionId, mounted>>
  /\ ThinkingEffect
  /\ UNCHANGED statusVars

\* the call i goes on after sendMessageWithRetry returned or threw
WebhookDone(i) ==
  CASE rPc' = "returned" ->
         \E response \in Responses(now) :
           LET s == [sends EXCEPT ![i].response = response, ![i].replyAt = now] IN
             IF useFallback
               THEN Finished(s, i,
                             ClientCreateMessage(CurrentDb, TRUE, "none", "none", "none",
                                                 AssistantMessage(s[i].sessionId, response, now),
                                                 nextId, now))
                    /\ UNCHANGED useFallback
               ELSE /\ sends' = [s EXCEPT ![i].pc = "assistantSave"]
                    /\ UNCHANGED <<dbVars, sessions, isLoading, error,
                                   currentMessages, sendingMessageRef, currentMessageId>>
    [] rPc' = "thrown" ->
         /\ Caught(sends, i, rResult')
         /\ currentMessages' = CatchMessages(currentMessages)
         /\ UNCHANGED <<dbVars, sessions>>
    [] OTHER -> UNCHANGED <<dbVars, sessions, isLoading, error, currentMessages,
                            sendingMessageRef, sends, currentMessageId>>

\* the webhook request of a sendMessage call settles
WebhookSettles ==
  /\ \E i \in 1..Len(sends), outcome \in StoreOutcomes :
       /\ sends[i].pc = "webhook"
       /\ RetrySettle(outcome)
       /\ WebhookDone(i)
  /\ UNCHANGED <<now, opVars, currentSessionId, savedSessionId, mounted>>
  /\ ThinkingEffect
  /\ UNCHANGED statusVars

\* the backoff timer of the webhook call fires
WebhookBackoffElapsed ==
  /\ \E i \in 1..Len(sends) :
       /\ sends[i].pc = "webhook"
       /\ RetryResume
       /\ WebhookDone(i)
  /\ UNCHANGED <<now, opVars, currentSessionId, savedSessionId, mounted>>
  /\ ThinkingEffect
  /\ UNCHANGED statusVars

\* the remote service answers (or fails) the createMessage of an assistant
\* message
AssistantSaveSettles ==
  /\ \E i \in 1..Len(sends), fault \in StoreFaults :
       /\ sends[i].pc = "assistantSave"
       /\ Finished(sends, i,
                   ClientCreateMessage(CurrentDb, useFallback, fault, "none", "none",
                                       AssistantMessage(sends[i].sessionId,
                                                        sends[i].response,
                                                        sends[i].replyAt),
                                       nextId, now))
  /\ UNCHANGED <<now, n8nVars, useFallback, opVars, currentSessionId,
                 savedSessionId, mounted>>
  /\ ThinkingEffect
  /\ UNCHANGED statusVars

\* the mount effect: loadSessions
LoadSessions ==
  /\ ~mounted
  /\ mounted' = TRUE
  /\ \E fault \in StoreFaults, faultMessages \in StoreFaults :
       LET r == ClientGetSessions(CurrentDb, useFallback, fault)
           found == \E i \in 1..Len(r.res) : r.res[i].id = savedSessionId
           selected == IF savedSessionId # 0 /\ found THEN savedSessionId
                       ELSE FirstId(r.res)
       IN /\ sessions' = r.res
          /\ currentSessionId' = selected
          /\ currentMessages' = ReloadMessages(r.db, currentSessionId, selected,
                                               faultMessages)
  /\ isLoading' = FALSE
  /\ error' = Null
  /\ UNCHANGED <<now, n8nVars, dbVars, opVars, currentMessageId, sendingMessageRef, savedSessionId,
                 sends>>
  /\ ThinkingEffect
  /\ UNCHANGED statusVars

StoreCreateSession ==
  /\ mounted
  /\ nextId <= MaxStoreIds
  /\ \E fault \in StoreFaults, faultMessages \in StoreFaults, name \in Names :
       LET r == ClientCreateSession(CurrentDb, useFallback, fault, name, nextId, now) IN
         /\ Commit(r)
         /\ sessions' = <<r.res>> \o sessions
         /\ currentSessionId' = r.res.id
         /\ savedSessionId' = r.res.id
         /\ currentMessages' = ReloadMessages(r.db, currentSessionId, r.res.id,
                                              faultMessages)
  /\ nextId' = nextId + 1
  /\ isLoading' = FALSE
  /\ error' = Null
  /\ UNCHANGED <<now, n8nVars, useFallback, opVars, currentMessageId, sendingMessageRef, mounted,
                 sends>>
  /\ ThinkingEffect
  /\ UNCHANGED statusVars

SelectSession ==
  /\ mounted
  /\ \E sessionId \in {sessions[i].id : i \in 1..Len(sessions)},
        fault \in StoreFaults, faultMessages \in StoreFaults :
       LET r == ClientUpdateSessionActivity(CurrentDb, useFallback, fault, sessionId, now) IN
         /\ Commit(r)
         /\ currentSessionId' = sessionId
         /\ savedSessionId' = sessionId
         /\ currentMessages' = ReloadMessages(r.db, currentSessionId, sessionId,
                                              faultMessages)
  /\ UNCHANGED <<now, n8nVars, useFallback, nextId, opVars, currentMessageId, sessions, isLoading,
                 error, sendingMessageRef, mounted, sends>>
  /\ ThinkingEffect
  /\ UNCHANGED statusVars

StoreDeleteSession ==
  /\ mounted
  /\ \E sessionId \in {sessions[i].id : i \in 1..Len(sessions)},
        fault \in StoreFaults, faultMessages \in StoreFaults :
       LET r == ClientDeleteSession(CurrentDb, useFallback, fault, sessionId)
           newSessions == SelectSeq(sessions, LAMBDA x : x.id # sessionId)
           newCurrentSessionId == IF currentSessionId = sessionId
                                    THEN FirstId(newSessions)
                                    ELSE currentSessionId
       IN /\ Commit(r)
          /\ sessions' = newSessions
          /\ currentSessionId' = newCurrentSessionId
          /\ savedSessionId' = newCurrentSessionId
          /\ currentMessages' = ReloadMessages(r.db, currentSessionId,
                                               newCurrentSessionId, faultMessages)
  /\ UNCHANGED <<now, n8nVars, useFallback, nextId, opVars, currentMessageId, isLoading, error,
                 sendingMessageRef, mounted, sends>>
  /\ ThinkingEffect
  /\ UNCHANGED statusVars

StoreTick ==
  /\ now + StoreTickMs <= MaxStoreTime
  /\ now' = now + StoreTickMs
  /\ UNCHANGED <<n8nVars, dbVars, opVars, storeVars, statusVars>>

\* A store is constructed in a browser that a previous visit may have left a
\* session in: the session is held by the store in use.
StoredSession == 
  [id |-> 1, name |-> "Chat", createdAt |-> IsoString(0), updatedAt |-> IsoString(0),
   messageCount |-> 0, lastActivity |-> IsoString(0), isActive |-> TRUE]

Init ==
  /\ now = 0
  /\ timeout = ApiTimeout
  /\ retryAttempts = ApiRetryAttempts
  /\ retryDelay = ApiRetryDelay
  /\ rPc = "idle"
  /\ attempt = 0
  /\ calls = 0
  /\ outstanding = 0
  /\ lastErr = NoError
  /\ rResult = Undefined
  /\ timerDue = 0
  /\ lastFailAt = 0
  /\ lastStartAt = 0
  /\ backoffs = 0
  /\ useFallback \in BOOLEAN
  /\ \E visited \in BOOLEAN :
       /\ remoteSessions = IF visited /\ ~useFallback THEN <<StoredSession>> ELSE <<>>
       /\ localSessions = IF visited /\ useFallback THEN <<StoredSession>> ELSE <<>>
       /\ nextId = IF visited THEN 2 ELSE 1
       /\ savedSessionId \in (IF visited THEN {0, 1} ELSE {0})
  /\ remoteMessages = <<>>
  /\ localMessages = <<>>
  /\ lastOp = NoOp
  /\ sessions = <<>>
  /\ currentSessionId = 0
  /\ isLoading = FALSE
  /\ error = Null
  /\ currentMessages = <<>>
  /\ sendingMessageRef = FALSE
  /\ mounted = FALSE
  /\ sends = <<>>
  /\ currentMessageId = 0
  /\ uiMounted = TRUE
  /\ intervalRef = FALSE
  /\ lastPoll = NoPoll
  /\ thinkingStatus = <<>>
  /\ statusReply = NoReply

Next ==
  \/ LoadSessions
  \/ StoreCreateSession
  \/ SelectSession
  \/ StoreDeleteSession
  \/ SendMessage
  \/ UserSaveSettles
  \/ WebhookSettles
  \/ WebhookBackoffElapsed
  \/ AssistantSaveSettles
  \/ StoreTick

Spec == Init /\ [][Next]_vars


\* the ids and the count of the stored messages of a type
StoredOfType(list, type) == SelectSeq(list, LAMBDA m : m.type = type)
Holds(list, id) == \E k \in 1..Len(list) : list[k].id = id

\* C1: at most one sendMessage call is in flight at any time; a call made
\* before another has resolved saves no user message, and the stores hold no
\* more user messages than there are calls that saved one.
C1_SingleInFlight ==
  /\ Cardinality(InFlight) <= 1
  /\ sendingMessageRef <=> InFlight # {}
  /\ \A i \in 1..Len(sends) :
       /\ sends[i].overlaps => sends[i].pc \in {"dropped", "noSession"}
       /\ sends[i].pc \in {"dropped", "noSession"} => sends[i].userId = 0
       /\ sends[i].pc \in {"webhook", "assistantSave", "done", "failed"} =>
            sends[i].userId # 0
  /\ Len(StoredOfType(StoredMessages, "user"))
       <= Cardinality({i \in 1..Len(sends) : sends[i].userId # 0})

C1_Witness ==
  /\ Len(sends) = 2
  /\ sends[1].pc = "webhook"
  /\ sends[2].pc = "dropped"
  /\ sends[2].overlaps
  /\ Len(StoredOfType(StoredMessages, "user")) = 1
  /\ outstanding = 1

\* C2: a webhook request is issued only for a call whose user message
\* createMessage has completed (the stores hold the message when the first
\* request is issued), and the assistant message createMessage is
\* made only for a call whose webhook call has returned its response and
\* whose user message was saved before.
C2_SaveWebhookSave ==
  [][/\ outstanding' > outstanding =>
          \E i \in 1..Len(sends') :
            /\ sends'[i].pc = "webhook"
            /\ sends'[i].userId # 0
            /\ calls' = 1 =>
                 Holds(StoredOfType(remoteMessages' \o localMessages', "user"),
                       sends'[i].userId)
     /\ \A i \in 1..Len(sends) :
          (\/ sends'[i].assistantId # sends[i].assistantId
           \/ Len(StoredOfType(remoteMessages' \o localMessages', "assistant"))
                > Len(StoredOfType(StoredMessages, "assistant")))
          => \E j \in 1..Len(sends) :
               /\ sends'[j].pc = "done"
               /\ sends[j].pc \in {"webhook", "assistantSave"}
               /\ sends'[j].response # Undefined
               /\ sends'[j].userId # 0
               /\ rPc' = "returned"
               /\ outstanding' = 0]_vars

C2_Witness ==
  /\ Len(sends) = 1
  /\ sends[1].pc = "done"
  /\ ~useFallback
  /\ Holds(StoredOfType(remoteMessages, "user"), sends[1].userId)
  /\ Holds(StoredOfType(remoteMessages, "assistant"), sends[1].assistantId)
  /\ calls = 2

\* a step in which sendMessage is called
CallStep == Len(sends') = Len(sends) + 1

\* C3 as stated: a sendMessage call made while another is in flight changes
\* nothing: no message is saved, no webhook request made, no error set, no
\* state changed, and the call never proceeds later.
C3_Original ==
  [][/\ (CallStep /\ InFlight # {}) =>
          /\ sends'[Len(sends')].pc = "dropped"
          /\ UNCHANGED <<n8nVars, dbVars, sessions, currentSessionId, isLoading,
                         error, currentMessages, sendingMessageRef, savedSessionId>>
     /\ \A i \in 1..Len(sends) :
          sends[i].pc = "dropped" => sends'[i] = sends[i]]_vars

\* C3: a sendMessage call made while another is in flight saves no message,
\* makes no webhook request and never proceeds later; it changes no state,
\* except that with no session selected it sets the error 'No session
\* selected'.
C3_DroppedWhileInFlight ==
  [][/\ (CallStep /\ InFlight # {}) =>
          /\ sends'[Len(sends')].pc = IF currentSessionId = 0 THEN "noSession"
                                      ELSE "dropped"
          /\ error' = IF currentSessionId = 0 THEN Str("No session selected")
                      ELSE error
          /\ UNCHANGED <<n8nVars, dbVars, sessions, currentSessionId, isLoading,
                         currentMessages, sendingMessageRef, savedSessionId>>
     /\ \A i \in 1..Len(sends) :
          sends[i].pc \in {"dropped", "noSession"} => sends'[i] = sends[i]]_vars

C3_Witness ==
  /\ Len(sends) = 2
  /\ sends[1].pc = "assistantSave"
  /\ sends[2].pc = "dropped"
  /\ sends[2].sessionId = sends[1].sessionId
  /\ error = Null
  /\ isLoading

\* C4: the step in which the webhook call of a sendMessage call fails sets
\* the error and leaves the stored messages and the displayed messages as
\* they are, so the user message saved by the call stays in both; the call
\* saves no assistant message, then or later.
C4_FailureKeepsMessages ==
  [][\A i \in 1..Len(sends) :
       /\ (sends[i].pc = "webhook" /\ sends'[i].pc = "failed") =>
            /\ UNCHANGED <<remoteMessages, localMessages, currentMessages>>
            /\ Holds(StoredMessages, sends[i].userId) =>
                 Holds(remoteMessages' \o localMessages', sends'[i].userId)
            /\ Holds(currentMessages, sends[i].userId) =>
                 Holds(currentMessages', sends'[i].userId)
            /\ sends'[i].assistantId = 0
            /\ error' # Null
            /\ ~isLoading'
       /\ sends[i].pc = "failed" => sends'[i] = sends[i]]_vars

C4_Witness ==
  /\ Len(sends) = 1
  /\ sends[1].pc = "failed"
  /\ calls = ApiRetryAttempts
  /\ Holds(StoredOfType(StoredMessages, "user"), sends[1].userId)
  /\ Holds(currentMessages, sends[1].userId)
  /\ StoredOfType(StoredMessages, "assistant") = <<>>
  /\ error = Str("Server error occurred. Please try again later.")


\* a step in which the webhook call of the sendMessage call i has thrown
WebhookThrows(i) == sends[i].pc = "webhook" /\ rPc' = "thrown"

FailureKinds == {"network", "timeout", "server", "validation"}

\* C19: the error of a failed sendMessage is an N8NError of one of the kinds
\* of the failure taxonomy.
C19_FailureCarriesKind ==
  lastErr # NoError =>
    /\ lastErr.kind = "N8NError"
    /\ lastErr.type \in FailureKinds

\* the persisted messages of a session
StoredMessagesOf(sessionId) ==
  SelectSeq(StoredMessages, LAMBDA m : m.sessionId = sessionId)

\* the only sendMessage call made so far has completed, and its session is
\* still stored
OneSendDone ==
  /\ Len(sends) = 1
  /\ sends[1].pc = "done"
  /\ sends[1].content = "Hello"
  /\ \E k \in 1..Len(StoredSessions) : StoredSessions[k].id = sends[1].sessionId

\* C14: after one sendMessage('Hello') on a session without messages, whose
\* webhook answered {output: 'Hi\nHi\nThere'}, the session has exactly two
\* persisted messages, the user message 'Hello' and then the assistant
\* message with response type text and content 'Hi\nThere', and its
\* messageCount, persisted and in memory, is 2 more than the 0 it was.
C14_HelloScenario ==
  OneSendDone =>
    LET id == sends[1].sessionId
        stored == StoredMessagesOf(id)
    IN  /\ Len(stored) = 2
        /\ stored[1].type = "user"
        /\ stored[1].content = "Hello"
        /\ stored[2].type = "assistant"
        /\ stored[2].responseType = Str("text")
        /\ stored[2].responseContent = Text(<<"Hi", "There">>)
        /\ \A k \in 1..Len(StoredSessions) :
             StoredSessions[k].id = id => StoredSessions[k].messageCount = 2
        /\ \A k \in 1..Len(sessions) :
             sessions[k].id = id => sessions[k].metadata.messageCount = 2

C14_Witness ==
  /\ OneSendDone
  /\ Len(StoredMessagesOf(sends[1].sessionId)) = 2
  /\ \E k \in 1..Len(sessions) :
       /\ sessions[k].id = sends[1].sessionId
       /\ sessions[k].metadata.messageCount = 2

\* the ids of the sessions of the in-memory list
ListedIds == {sessions[k].id : k \in 1..Len(sessions)}

\* C23: a step that removes a session from the in-memory list removes that
\* session only; when it was the active session, the active session becomes
\* the first session of the remaining list, or none when the list is empty;
\* otherwise the active session is unchanged.
C23_ActiveAfterDelete ==
  [][Len(sessions') < Len(sessions) =>
       \E sessionId \in ListedIds :
         /\ sessions' = SelectSeq(sessions, LAMBDA x : x.id # sessionId)
         /\ currentSessionId' =
              IF currentSessionId # sessionId THEN currentSessionId
              ELSE IF Len(sessions') = 0 THEN 0
              ELSE sessions'[1].id]_vars

\* session 2 was created, which made it the active session, and deleted:
\* session 1, the one that remains in memory, is the active session
C23_Witness ==
  /\ mounted
  /\ Len(sessions) = 1
  /\ sessions[1].id = 1
  /\ Len(StoredSessions) = 1
  /\ nextId = 3
  /\ StoredMessages = <<>>
  /\ sends = <<>>
  /\ currentSessionId = 1

(***************************************************************************)
(* SpecResubmit: the store with retryMessage, one session at a time.       *)
(***************************************************************************)
NextResubmit ==
  \/ LoadSessions
  \/ StoreCreateSession
  \/ SendMessage
  \/ RetryMessage
  \/ UserSaveSettles
  \/ WebhookSettles
  \/ WebhookBackoffElapsed
  \/ AssistantSaveSettles
  \/ StoreTick

SpecResubmit == Init /\ [][NextResubmit]_vars

\* the list new holds the list old, unchanged, as its beginning
Extends(new, old) ==
  /\ Len(new) >= Len(old)
  /\ SubSeq(new, 1, Len(old)) = old

RetryStep == lastOp' # lastOp /\ lastOp'.op = "retryMessage"

\* a retryMessage whose sendMessage has resolved with both messages saved
RetryDone ==
  /\ lastOp.op = "retryMessage"
  /\ lastOp.call # 0
  /\ sends[lastOp.call].pc = "done"

SessionNameLimit == 100

LongName(n) == [i \in 1..n |-> "x"]

NewSessionNames ==
  {<<"N", "e", "w">>, <<>>, <<" ">>, <<" ", "N", " ">>,
   LongName(SessionNameLimit), LongName(SessionNameLimit + 1)}

\* mockAPIUtils.formatError
FormatMockAPIError(err) ==
  IF err.status = 404 THEN "Resource not found"
  ELSE IF err.status = 429 THEN "Too many requests. Please wait and try again."
  ELSE IF err.status # 0 /\ err.status >= 500 THEN "Server error. Please try again later."
  ELSE "An error occurred. Please try again."

\* ValidateSessionName that accepts every name
ValidateSessionName_Accepting(name) == Null

\* mockAPIUtils.validateSessionName
ValidateSessionName(name) ==
  IF Trim(name) = <<>> THEN Str("Session name cannot be empty")
  ELSE IF Len(name) > SessionNameLimit
    THEN Str("Session name cannot exceed 100 characters")
  ELSE Null

\* renameSession(sessionId, newName) is called: lastOp keeps its arguments
RenameSession ==
  /\ mounted
  /\ \E sessionId \in 1..MaxStoreIds, newName \in NewSessionNames, fault \in StoreFaults :
       LET validationError == ValidateSessionName(newName)
           r == ClientUpdateSession(CurrentDb, useFallback, fault, sessionId, newName, now)
       IN  /\ lastOp' = [op |-> "renameSession", id |-> sessionId, name |-> newName]
           /\ IF validationError # Null
                THEN /\ error' = validationError
                     /\ UNCHANGED <<dbVars, sessions>>
              ELSE IF IsError(r.res)
                THEN /\ error' = Str(FormatMockAPIError(r.res))
                     /\ Commit(r)
                     /\ UNCHANGED <<useFallback, nextId, sessions>>
              ELSE /\ Commit(r)
                   /\ sessions' = [k \in 1..Len(sessions) |->
                                     IF sessions[k].id = sessionId THEN r.res
                                     ELSE sessions[k]]
                   /\ UNCHANGED <<useFallback, nextId, error>>
  /\ UNCHANGED <<now, n8nVars, currentSessionId, isLoading, currentMessages,
                 sendingMessageRef, savedSessionId, mounted, sends, currentMessageId>>
  /\ ThinkingEffect
  /\ UNCHANGED statusVars

NextRename ==
  \/ LoadSessions
  \/ StoreCreateSession
  \/ RenameSession
  \/ StoreTick

SpecRename == Init /\ [][NextRename]_vars

RenameStep == lastOp' # lastOp /\ lastOp'.op = "renameSession"

C30_MessagesOfActiveSession ==
  \A k \in 1..Len(currentMessages) : currentMessages[k].sessionId = currentSessionId

\* C31: when no sendMessage is in flight, the in-memory list is the list of
\* the persisted messages of the active session, empty when there is none.
\* The comparison is on what identifies a message (id, session, type and
\* content): the dates inside responseData are Date objects in the message
\* sendMessage appends and strings in the one getMessages reads back.
MessageKeys(list) ==
  [k \in 1..Len(list) |->
    [id |-> list[k].id, sessionId |-> list[k].sessionId,
     type |-> list[k].type, content |-> list[k].content]]

C31_ListIsPersisted ==
  (mounted /\ InFlight = {}) =>
    MessageKeys(currentMessages) =
      MessageKeys(MessagesOf(CurrentDb, currentSessionId, "none"))

\* the request that the call i sends to the webhook
N8nRequest(i) ==
  [username |-> "user", message |-> sends[i].content,
   sessionId |-> sends[i].sessionId, messageId |-> TempMessageId(i)]

\* the messages, stored or displayed, that the call i saved
SavedBy(i) ==
  LET all == remoteMessages \o localMessages \o currentMessages IN
    {all[k] : k \in {j \in 1..Len(all) :
                       /\ all[j].id # 0
                       /\ all[j].id \in {sends[i].userId, sends[i].assistantId}}}

\* C33: the user message, the webhook request and the assistant message of
\* a sendMessage call carry the session id that was active when the call
\* began, whatever the active session has become.
C33_SessionOfCall ==
  \A i \in 1..Len(sends) :
    /\ sends[i].pc \in InFlightPcs \cup {"done", "failed"} =>
         N8nRequest(i).sessionId = sends[i].sessionId
    /\ \A m \in SavedBy(i) : m.sessionId = sends[i].sessionId

\* the active session changed while a call was in flight: the list of
\* session 2 shows the assistant message that the call saved for session 1
C33_Witness ==
  /\ Len(sends) >= 1
  /\ sends[1].pc = "done"
  /\ sends[1].sessionId = 1
  /\ currentSessionId = 2
  /\ \E k \in 1..Len(currentMessages) :
       /\ currentMessages[k].id = sends[1].assistantId
       /\ currentMessages[k].type = "assistant"
       /\ currentMessages[k].sessionId = 1

\* the messages of the list that reference no session of the list
Orphans(messageList, sessionList) ==
  {k \in 1..Len(messageList) :
     \A j \in 1..Len(sessionList) : sessionList[j].id # messageList[k].sessionId}

\* C34: every persisted message references a persisted session, so that no
\* message of a deleted session remains or is created after the deletion.
C34_MessagesHaveSession ==
  /\ Orphans(localMessages, localSessions) = {}
  /\ Orphans(remoteMessages, remoteSessions) = {}

(***************************************************************************)
(* SpecSessions: loadSessions, createSession and deleteSession step by     *)
(* step.  Each is called, is served by the store, and settles with its     *)
(* setState; calls overlap freely.  lastOp holds the calls that have not   *)
(* settled: the position of loadSessions and the list it was served, the   *)
(* number of createSession calls not yet served and the sessions served,   *)
(* and the ids of the deleteSession calls before and after the store       *)
(* served them.  selectSession sets the active session when it is called.  *)
(***************************************************************************)
NoCalls ==
  [op |-> "sessions", load |-> "called", snapshot |-> <<>>, creating |-> 0,
   created |-> {}, deleting |-> {}, deleted |-> {}]

SessionCalls == lastOp.op = "sessions"

\* the session that loadSessions makes active
SelectedAfterLoad(list, saved) ==
  IF saved # 0 /\ \E i \in 1..Len(list) : list[i].id = saved
    THEN saved
    ELSE FirstId(list)

\* ActiveAfterDelete that keeps the active session
ActiveAfterDelete_Kept(current, sessionId, newSessions) == current

\* the session that deleteSession(sessionId) makes active
ActiveAfterDelete(current, sessionId, newSessions) ==
  IF current = sessionId THEN FirstId(newSessions) ELSE current

LoadCalled ==
  /\ ~mounted
  /\ mounted' = TRUE
  /\ isLoading' = TRUE
  /\ error' = Null
  /\ lastOp' = NoCalls
  /\ UNCHANGED <<now, n8nVars, dbVars, sessions, currentSessionId, currentMessages,
                 sendingMessageRef, savedSessionId, sends, currentMessageId>>
  /\ ThinkingEffect
  /\ UNCHANGED statusVars

LoadServed ==
  /\ SessionCalls
  /\ lastOp.load = "called"
  /\ \E fault \in StoreFaults :
       lastOp' = [lastOp EXCEPT
                    !.load = "served",
                    !.snapshot = ClientGetSessions(CurrentDb, useFallback, fault).res]
  /\ UNCHANGED <<now, n8nVars, dbVars, storeVars, statusVars>>

LoadSettles ==
  /\ SessionCalls
  /\ lastOp.load = "served"
  /\ \E faultMessages \in StoreFaults :
       LET selected == SelectedAfterLoad(lastOp.snapshot, savedSessionId) IN
         /\ sessions' = lastOp.snapshot
         /\ currentSessionId' = selected
         /\ currentMessages' = ReloadMessages(CurrentDb, currentSessionId, selected,
                                              faultMessages)
  /\ isLoading' = FALSE
  /\ lastOp' = [lastOp EXCEPT !.load = "done"]
  /\ UNCHANGED <<now, n8nVars, dbVars, error, sendingMessageRef, savedSessionId,
                 mounted, sends, currentMessageId>>
  /\ ThinkingEffect
  /\ UNCHANGED statusVars

CreateCalled ==
  /\ mounted
  /\ SessionCalls
  /\ nextId + lastOp.creating <= MaxStoreIds
  /\ isLoading' = TRUE
  /\ error' = Null
  /\ lastOp' = [lastOp EXCEPT !.creating = @ + 1]
  /\ UNCHANGED <<now, n8nVars, dbVars, sessions, currentSessionId, currentMessages,
                 sendingMessageRef, savedSessionId, mounted, sends, currentMessageId>>
  /\ ThinkingEffect
  /\ UNCHANGED statusVars

CreateServed ==
  /\ SessionCalls
  /\ lastOp.creating > 0
  /\ \E fault \in StoreFaults, name \in Names :
       LET r == ClientCreateSession(CurrentDb, useFallback, fault, name, nextId, now) IN
         /\ Commit(r)
         /\ lastOp' = [lastOp EXCEPT !.creating = @ - 1, !.created = @ \cup {r.res}]
  /\ nextId' = nextId + 1
  /\ UNCHANGED <<now, n8nVars, useFallback, storeVars, statusVars>>

CreateSettles ==
  /\ SessionCalls
  /\ \E session \in lastOp.created, faultMessages \in StoreFaults :
       /\ sessions' = <<session>> \o sessions
       /\ currentSessionId' = session.id
       /\ savedSessionId' = session.id
       /\ currentMessages' = ReloadMessages(CurrentDb, currentSessionId, session.id,
                                            faultMessages)
       /\ lastOp' = [lastOp EXCEPT !.created = @ \ {session}]
  /\ isLoading' = FALSE
  /\ UNCHANGED <<now, n8nVars, dbVars, error, sendingMessageRef, mounted, sends,
                 currentMessageId>>
  /\ ThinkingEffect
  /\ UNCHANGED statusVars

DeleteCalled ==
  /\ mounted
  /\ SessionCalls
  /\ \E sessionId \in ListedIds \ lastOp.deleting :
       lastOp' = [lastOp EXCEPT !.deleting = @ \cup {sessionId}]
  /\ UNCHANGED <<now, n8nVars, dbVars, storeVars, statusVars>>

DeleteServed ==
  /\ SessionCalls
  /\ \E sessionId \in lastOp.deleting, fault \in StoreFaults :
       /\ Commit(ClientDeleteSession(CurrentDb, useFallback, fault, sessionId))
       /\ lastOp' = [lastOp EXCEPT !.deleting = @ \ {sessionId},
                                   !.deleted = @ \cup {sessionId}]
  /\ UNCHANGED <<now, n8nVars, useFallback, nextId, storeVars, statusVars>>

DeleteSettles ==
  /\ SessionCalls
  /\ \E sessionId \in lastOp.deleted, faultMessages \in StoreFaults :
       LET newSessions == SelectSeq(sessions, LAMBDA x : x.id # sessionId)
           newCurrentSessionId ==
             ActiveAfterDelete(currentSessionId, sessionId, newSessions)
       IN /\ sessions' = newSessions
          /\ currentSessionId' = newCurrentSessionId
          /\ savedSessionId' = newCurrentSessionId
          /\ currentMessages' = ReloadMessages(CurrentDb, currentSessionId,
                                               newCurrentSessionId, faultMessages)
          /\ lastOp' = [lastOp EXCEPT !.deleted = @ \ {sessionId}]
  /\ UNCHANGED <<now, n8nVars, dbVars, isLoading, error, sendingMessageRef, mounted,
                 sends, currentMessageId>>
  /\ ThinkingEffect
  /\ UNCHANGED statusVars

NextSessions ==
  \/ LoadCalled
  \/ LoadServed
  \/ LoadSettles
  \/ CreateCalled
  \/ CreateServed
  \/ CreateSettles
  \/ SelectSession
  \/ DeleteCalled
  \/ DeleteServed
  \/ DeleteSettles

SpecSessions == Init /\ [][NextSessions]_vars

C36_LoadingWhileSending ==
  InFlight # {} => isLoading

\* the number of messages of the list that belong to the session
MessagesIn(messageList, sessionId) ==
  Cardinality({k \in 1..Len(messageList) : messageList[k].sessionId = sessionId})

\* C37: in the local store the messageCount of every session is the number
\* of stored messages of that session.
C37_LocalCountIsExact ==
  \A j \in 1..Len(localSessions) :
    localSessions[j].messageCount = MessagesIn(localMessages, localSessions[j].id)

\* the sessions that createSession stored, in either store
CreatedIds ==
  {remoteSessions[k].id : k \in 1..Len(remoteSessions)}
    \cup {localSessions[k].id : k \in 1..Len(localSessions)}

\* every id given out is still stored: nothing has been deleted
NothingDeleted ==
  Len(remoteSessions) + Len(localSessions) + Len(remoteMessages) + Len(localMessages)
    = nextId - 1

\* C38: as long as nothing was deleted, getSessions returns every session
\* that createSession returned, and getSession finds each of them.
C38_CreatedIsFound ==
  NothingDeleted =>
    /\ lastOp.op = "getSessions" =>
         \A id \in CreatedIds : \E k \in 1..Len(lastOp.res) : lastOp.res[k].id = id
    /\ (lastOp.op = "getSession" /\ lastOp.arg \in CreatedIds) =>
         lastOp.res # Null

(***************************************************************************)
(* SpecSendLive: the store with the scheduling that the code relies on.    *)
(* Every request that sendMessage awaits settles (createMessage and the    *)
(* webhook request are fetches with a timeout), and a backoff timer that   *)
(* is set fires once its delay has passed.  The clock is followed while a  *)
(* backoff timer is pending, the only wait of sendMessage that depends on  *)
(* it.                                                                     *)
(***************************************************************************)
\* the clock runs until the pending backoff timer is due
StoreClock ==
  /\ rPc = "backoff"
  /\ now < timerDue
  /\ now' = now + StoreTickMs
  /\ UNCHANGED <<n8nVars, dbVars, opVars, storeVars, statusVars>>

NextSendLive ==
  \/ LoadSessions
  \/ StoreCreateSession
  \/ StoreDeleteSession
  \/ SendMessage
  \/ UserSaveSettles
  \/ WebhookSettles
  \/ WebhookBackoffElapsed
  \/ AssistantSaveSettles
  \/ StoreClock

SpecSendLive ==
  /\ Init
  /\ [][NextSendLive]_vars
  /\ WF_vars(UserSaveSettles)
  /\ WF_vars(WebhookSettles)
  /\ WF_vars(WebhookBackoffElapsed)
  /\ WF_vars(AssistantSaveSettles)
  /\ WF_vars(StoreClock)

ProviderState ==
  <<now, n8nVars, dbVars, opVars, sessions, currentSessionId, isLoading, error,
    currentMessages, sendingMessageRef, savedSessionId, mounted, sends,
    currentMessageId, statusVars>>

\* the interval fires: fetchStatus
PollTick ==
  /\ intervalRef
  /\ now - lastPoll.at >= PollingInterval
  /\ lastPoll' = IF TimerWanted(isLoading, currentSessionId, currentMessageId)
                   THEN Poll(currentSessionId, currentMessageId, now)
                   ELSE lastPoll
  /\ UNCHANGED <<ProviderState, uiMounted, intervalRef>>

InterfaceUnmount ==
  /\ uiMounted
  /\ UNCHANGED ProviderState
  /\ EffectAfter(FALSE)

InterfaceMount ==
  /\ ~uiMounted
  /\ UNCHANGED ProviderState
  /\ EffectAfter(TRUE)

InitThinking ==
  /\ Init
  /\ nextId = 1
  /\ ~useFallback

NextThinking ==
  \/ LoadSessions
  \/ StoreCreateSession
  \/ SelectSession
  \/ StoreDeleteSession
  \/ SendMessage
  \/ UserSaveSettles
  \/ WebhookSettles
  \/ WebhookBackoffElapsed
  \/ AssistantSaveSettles
  \/ StoreTick
  \/ PollTick
  \/ InterfaceUnmount
  \/ InterfaceMount

SpecThinking == InitThinking /\ [][NextThinking]_vars

\* C20: the interval is set only while a sendMessage call is outstanding,
\* ChatInterface is mounted and isLoading is true, and every request of
\* fetchStatus is made while a sendMessage call is outstanding: the step that
\* ends the call, unmounts ChatInterface or clears isLoading leaves no
\* interval behind.
C20_TimerOnlyWhileSending ==
  [][/\ intervalRef' => (InFlight' # {} /\ uiMounted' /\ isLoading')
     /\ (lastPoll' # lastPoll /\ lastPoll' # NoPoll) =>
          /\ InFlight' # {}
          /\ lastPoll'.messageId = currentMessageId']_vars

C20_Witness ==
  /\ intervalRef
  /\ \E i \in InFlight :
       /\ lastPoll.messageId = TempMessageId(i)
       /\ lastPoll.at > sends[i].at

(***************************************************************************)
(* The /api/status route: POST, GET and DELETE over the Map thinkingStatus *)
(* of the server.  An id is a string, given as the sequence of its parts;  *)
(* the empty sequence stands for a parameter that is missing or empty.     *)
(***************************************************************************)
FiveMinutes == 5 * 60 * 1000
StatusTickMs == 100000
MaxStatusTime == 400000

\* `${sessionId}-${messageId}`
StatusKey(sessionId, messageId) == sessionId \o <<"-">> \o messageId

\* the ids of the requests: plain ones, and ones that contain a hyphen as
\* the temporary message ids of sendMessage do
StatusSessionIds == {<<"s">>, <<"s", "-", "t">>}
StatusMessageIds == {<<"m">>, <<"t", "-", "m">>}

StatusRequest(method, sessionId, messageId) ==
  [method |-> method, sessionId |-> sessionId, messageId |-> messageId, at |-> now]

\* the response 400 of a request without sessionId or messageId
Rejected(request) ==
  /\ statusReply' = [request |-> request, code |-> 400, body |-> Undefined]
  /\ UNCHANGED thinkingStatus

\* KeptEntries that keeps every entry
KeptEntries_All(entries, t) == DOMAIN entries

\* the entries that the clean-up of POST keeps at time t
KeptEntries(entries, t) ==
  {k \in DOMAIN entries : ~(NewDate(entries[k].timestamp).ms < t - FiveMinutes)}

\* the Map after a POST at time t that carries both ids: the entry is set,
\* then the clean-up runs
Posted(entries, sessionId, messageId, t) ==
  LET key == StatusKey(sessionId, messageId)
      entry == [sessionId |-> sessionId, messageId |-> messageId,
                status |-> Str("Thinking"), timestamp |-> ToISOString(Date(t))]
      stored == [k \in DOMAIN entries \cup {key} |->
                   IF k = key THEN entry ELSE entries[k]]
  IN  [k \in KeptEntries(stored, t) |-> stored[k]]

StatusPost ==
  /\ \E sessionId \in StatusSessionIds \cup {<<>>},
        messageId \in StatusMessageIds \cup {<<>>} :
       LET request == StatusRequest("POST", sessionId, messageId)
       IN  IF sessionId = <<>> \/ messageId = <<>>
             THEN Rejected(request)
             ELSE /\ thinkingStatus' = Posted(thinkingStatus, sessionId, messageId, now)
                  /\ statusReply' = [request |-> request, code |-> 200,
                                     body |-> Bool(TRUE)]
  /\ UNCHANGED <<now, n8nVars, dbVars, opVars, storeVars>>

StatusGet ==
  /\ \E sessionId \in StatusSessionIds \cup {<<>>},
        messageId \in StatusMessageIds \cup {<<>>} :
       LET request == StatusRequest("GET", sessionId, messageId)
           key == StatusKey(sessionId, messageId)
       IN  IF sessionId = <<>> \/ messageId = <<>>
             THEN Rejected(request)
             ELSE /\ statusReply' =
                       [request |-> request, code |-> 200,
                        body |-> IF key \in DOMAIN thinkingStatus
                                   THEN thinkingStatus[key] ELSE Null]
                  /\ UNCHANGED thinkingStatus
  /\ UNCHANGED <<now, n8nVars, dbVars, opVars, storeVars>>

StatusDelete ==
  /\ \E sessionId \in StatusSessionIds \cup {<<>>},
        messageId \in StatusMessageIds \cup {<<>>} :
       LET request == StatusRequest("DELETE", sessionId, messageId)
           key == StatusKey(sessionId, messageId)
       IN  IF sessionId = <<>> \/ messageId = <<>>
             THEN Rejected(request)
             ELSE /\ thinkingStatus' = [k \in DOMAIN thinkingStatus \ {key} |->
                                          thinkingStatus[k]]
                  /\ statusReply' = [request |-> request, code |-> 200,
                                     body |-> Bool(TRUE)]
  /\ UNCHANGED <<now, n8nVars, dbVars, opVars, storeVars>>

StatusTick ==
  /\ now + StatusTickMs <= MaxStatusTime
  /\ now' = now + StatusTickMs
  /\ UNCHANGED <<n8nVars, dbVars, opVars, storeVars, statusVars>>

InitStatus ==
  /\ InitClient
  /\ useFallback = TRUE

NextStatus ==
  \/ StatusPost
  \/ StatusGet
  \/ StatusDelete
  \/ StatusTick

SpecStatus == InitStatus /\ [][NextStatus]_vars

\* C21: a GET never returns an entry that was written more than five minutes
\* before the request.
C21_ExpiresAfterFiveMinutes ==
  (/\ statusReply # NoReply
   /\ statusReply.request.method = "GET"
   /\ statusReply.code = 200
   /\ statusReply.body # Null)
  => statusReply.request.at - NewDate(statusReply.body.timestamp).ms <= FiveMinutes

\* C39: thinking-status entries are kept apart per pair of ids: the entry
\* that a GET returns was written for the pair of the request.
C39_ReadsOwnEntry ==
  (/\ statusReply # NoReply
   /\ statusReply.request.method = "GET"
   /\ statusReply.code = 200
   /\ statusReply.body # Null)
  => /\ statusReply.body.sessionId = statusReply.request.sessionId
     /\ statusReply.body.messageId = statusReply.request.messageId

\* the entries older than five minutes at time t
Expired(entries, t) ==
  {k \in DOMAIN entries : t - NewDate(entries[k].timestamp).ms > FiveMinutes}

\* C40: right after a POST that was accepted, the Map holds no entry whose
\* timestamp is more than five minutes old.
C40_NoneExpiredAfterWrite ==
  (/\ statusReply # NoReply
   /\ statusReply.request.method = "POST"
   /\ statusReply.code = 200
   /\ statusReply.request.at = now)
  => Expired(thinkingStatus, now) = {}

\* a POST was accepted more than five minutes after the first one, and the
\* Map holds, beside its entry, an entry of the last tick that the clean-up
\* keeps
C40_Witness ==
  /\ statusReply # NoReply
  /\ statusReply.request.method = "POST"
  /\ statusReply.code = 200
  /\ statusReply.request.at = now
  /\ now > FiveMinutes
  /\ \E k \in DOMAIN thinkingStatus :
       now - NewDate(thinkingStatus[k].timestamp).ms
         \in (FiveMinutes - StatusTickMs + 1)..FiveMinutes
  /\ \E k \in DOMAIN thinkingStatus :
       NewDate(thinkingStatus[k].timestamp).ms = now

(***************************************************************************)
(* SpecSendStatus: the store on its remote path with the workflow of the   *)
(* webhook posting thinking updates for the send it is working on.  The    *)
(* request of sendMessage carries the session id and the temporary message *)
(* id `temp-${Date.now()}`; the workflow posts them back to /api/status.   *)
(* clearStatus of useThinkingStatus is returned by the hook and called by  *)
(* no component, so that no step of the store sends a DELETE.              *)
(***************************************************************************)
SendStatusKey(i) ==
  StatusKey(<<sends[i].sessionId>>, <<"temp", "-", TempMessageId(i)>>)

WorkflowPost ==
  /\ \E i \in InFlight :
       /\ sends[i].pc = "webhook"
       /\ thinkingStatus' = Posted(thinkingStatus, <<sends[i].sessionId>>,
                                   <<"temp", "-", TempMessageId(i)>>, now)
  /\ UNCHANGED <<now, n8nVars, dbVars, opVars, storeVars, statusReply>>

NextSendStatus ==
  \/ LoadSessions
  \/ StoreCreateSession
  \/ SendMessage
  \/ UserSaveSettles
  \/ WebhookSettles
  \/ WebhookBackoffElapsed
  \/ AssistantSaveSettles
  \/ StoreTick
  \/ WorkflowPost

SpecSendStatus == InitThinking /\ [][NextSendStatus]_vars

\* C22: once a sendMessage has resolved, the route holds no entry under the
\* key of that send.
C22_StatusDeletedAfterSend ==
  \A i \in 1..Len(sends) :
    sends[i].pc \notin InFlightPcs => SendStatusKey(i) \notin DOMAIN thinkingStatus

(***************************************************************************)
(* SpecNormalizer: validateResponse and deduplicateContent of one          *)
(* N8NClient, called with the JSON values and the text contents below.     *)
(***************************************************************************)
MaxLines == 3

\* the lines of a text content: a word, the word with white space before or
\* after it, the word in lower case, another word, a blank and an empty line
Lines == {"Hi", " Hi", "Hi ", "hi", "There", " ", ""}
Texts == {Join(lines) : lines \in UNION {[1..n -> Lines] : n \in 1..MaxLines}}

\* an object of the keys of f that are not undefined
ObjOf(f) == Obj([k \in {key \in DOMAIN f : f[key] # Undefined} |-> f[k]])

\* The decoded bodies of the webhook: null, primitives, arrays, and objects
\* of the keys that validateResponse reads.
Bodies ==
  {Null, Bool(FALSE), Bool(TRUE), Num(0), Num(1), Str(""), Str("Hi"),
   Text(<<"Hi", "Hi", "There">>),
   Arr(<<>>), Arr(<<Str("Hi")>>), Arr(<<Null>>),
   Arr(<<Obj([text1 |-> Str("Hi")])>>), Arr(<<Obj([data |-> Str("Hi")])>>)}
  \cup
  {ObjOf(f) :
     f \in [type : {Undefined, Str("interim"), Str("foo"), Num(1)},
            messageType : {Undefined, Str("text"), Str("chart"), Str("bar")},
            content : {Undefined, Null, Str(""), Text(<<"Hi", "Hi", "There">>),
                       Arr(<<Obj([chart1 |-> Str("Hi")])>>)},
            output : {Undefined, Text(<<"Hi", "Hi", "There">>)}
                       \cup {Str(json) : json \in DOMAIN JsonTexts},
            format : {Undefined, Str("json")},
            text : {Undefined, Str("Hi")}]}

InitNormalizer ==
  /\ InitClient
  /\ useFallback = TRUE

ValidateResponseCall ==
  /\ \E data \in Bodies :
       lastOp' = [op |-> "validateResponse", arg |-> data,
                  res |-> ValidateResponse(data, now)]
  /\ UNCHANGED <<now, n8nVars, dbVars, storeVars, statusVars>>

DeduplicateContentCall ==
  /\ \E content \in Texts :
       lastOp' = [op |-> "deduplicateContent", arg |-> content,
                  res |-> DeduplicateContent(content)]
  /\ UNCHANGED <<now, n8nVars, dbVars, storeVars, statusVars>>

NextNormalizer ==
  \/ ValidateResponseCall
  \/ DeduplicateContentCall

SpecNormalizer == InitNormalizer /\ [][NextNormalizer]_vars

\* C13: validateResponse returns, for every decoded body, a response whose
\* type is interim or final and whose messageType is one of the six kinds.
C13_ValidatedKinds ==
  lastOp.op = "validateResponse" =>
    /\ lastOp.res.type \in {Str(k) : k \in ResponseTypes}
    /\ lastOp.res.messageType \in {Str(k) : k \in MessageTypes}


\* C17: deduplicateContent is idempotent: the result of a call is a fixed
\* point of deduplicateContent.
C17_DedupIdempotent ==
  lastOp.op = "deduplicateContent" => DeduplicateContent(lastOp.res) = lastOp.res

C17_Witness ==
  /\ lastOp.op = "deduplicateContent"
  /\ lastOp.arg = Text(<<"Hi", "There", "Hi">>)
  /\ lastOp.res = Text(<<"Hi", "There">>)
  /\ DeduplicateContent(lastOp.res) = lastOp.res

\* a line that is empty or of white space only
Blank(line) == Trim(CharsOf(line)) = <<>>

\* the lines of a content at the indices of keep, in their order
LinesAt(lines, keep) ==
  [n \in 1..Cardinality(keep) |->
     lines[CHOOSE i \in keep : Cardinality({j \in keep : j < i}) = n - 1]]

\* C18 as stated: deduplicateContent removes exactly the lines that are not
\* blank and are identical to an earlier line of the content.
C18_Original ==
  lastOp.op = "deduplicateContent" =>
    LET lines == Split(lastOp.arg)
        keep == {i \in 1..Len(lines) :
                   Blank(lines[i]) \/ \A j \in 1..(i - 1) : lines[j] # lines[i]}
    IN  Split(lastOp.res) = LinesAt(lines, keep)

\* C18: deduplicateContent removes exactly the lines that are not blank and
\* that, with their leading and trailing white space removed, are identical
\* (case-sensitive) to an earlier line so trimmed; every other line, blank
\* lines included, is kept as written and in order.
C18_TrimmedDuplicatesRemoved ==
  lastOp.op = "deduplicateContent" =>
    LET lines == Split(lastOp.arg)
        keep == {i \in 1..Len(lines) :
                   \/ Blank(lines[i])
                   \/ \A j \in 1..(i - 1) :
                        Trim(CharsOf(lines[j])) # Trim(CharsOf(lines[i]))}
    IN  Split(lastOp.res) = LinesAt(lines, keep)

C18_Witness ==
  /\ lastOp.op = "deduplicateContent"
  /\ lastOp.arg = Text(<<"Hi", " Hi", "hi">>)
  /\ lastOp.res = Text(<<"Hi", "hi">>)

(***************************************************************************)
(* SpecRender: the components that display a response, as functions from   *)
(* their props to what they render or to the exception that leaves them,   *)
(* each behaviour being one component called with one value of its props.  *)
(***************************************************************************)
Thrown(message) == [kind |-> "thrown", message |-> message]

\* Array.isArray(v), v[i] of an array (0-based in the code, 1-based here)
IsArray(v) == v.kind = "array"
At(v, i) == IF IsArray(v) /\ i \in 1..Len(v.items) THEN v.items[i] ELSE Undefined

\* may a property of v be read?  A read on null or undefined throws.
Readable(v) == v.kind \notin {"null", "undefined"}

\* may React render v as a child?  A plain object is not a valid child.
ValidChild(v) == v.kind \notin {"object", "date"}

\* ErrorRenderer of ResponseRenderer.tsx
ErrorRenderer(content) ==
  IF content.kind # "string" /\ ~Readable(content)
    THEN Thrown("TypeError: Cannot read properties of null")
  ELSE
    LET errorContent == IF content.kind = "string" THEN content
                        ELSE IF Truthy(Get(content, "error")) THEN Get(content, "error")
                        ELSE Str("Unknown error")
        errorDetails == IF TypeofObject(content) THEN Get(content, "details") ELSE Undefined
        errorCode == IF TypeofObject(content) THEN Get(content, "code") ELSE Undefined
        children == {errorContent} \cup {v \in {errorDetails, errorCode} : Truthy(v)}
    IN  IF \E v \in children : ~ValidChild(v)
          THEN Thrown("Objects are not valid as a React child")
          ELSE [kind |-> "panel", title |-> "Error", message |-> errorContent,
                details |-> errorDetails, code |-> errorCode]

\* ChartRenderer of ResponseRenderer.tsx: its own throw is caught
ChartPanel(content) ==
  IF ~Truthy(content) \/ ~TypeofObject(content)
    THEN [kind |-> "panel", title |-> "Chart Error",
          message |-> Str("Invalid chart data structure"),
          details |-> Undefined, code |-> Undefined]
    ELSE [kind |-> "display", of |-> "chart", content |-> content]

\* the switch of ResponseRenderer
ResponseRenderer(responseData) ==
  CASE responseData.type = Str("text") ->
         [kind |-> "display", of |-> "text", content |-> responseData.content]
    [] responseData.type = Str("json") ->
         [kind |-> "display", of |-> "json", content |-> responseData.content]
    [] responseData.type = Str("image") ->
         [kind |-> "display", of |-> "image", content |-> responseData.content]
    [] responseData.type = Str("chart") -> ChartPanel(responseData.content)
    [] responseData.type = Str("mixed") ->
         [kind |-> "display", of |-> "mixed", content |-> responseData.content]
    [] OTHER -> ErrorRenderer(responseData.content)

\* the response data given to the renderer: every type, one unknown type
\* and no type, with contents of every kind
RenderedTypes ==
  {Str(t) : t \in {"text", "json", "image", "chart", "mixed", "error", "table"}}
    \cup {Undefined}
RenderedContents ==
  {Undefined, Null, Str(""), Str("Hi"), Num(0), Num(5), Bool(FALSE), Arr(<<>>),
   Arr(<<Str("Hi")>>), Obj(<<>>), Obj([error |-> Str("Bad request")]),
   Obj([error |-> Str("Bad request"), code |-> Num(400), details |-> Str("Hi")]),
   Obj([error |-> Obj([message |-> Str("Hi")])]),
   Obj([type |-> Str("pie"), data |-> Arr(<<>>)])}
RenderedData == [type : RenderedTypes, content : RenderedContents]

InitRender ==
  /\ InitClient
  /\ useFallback = TRUE

ResponseRendererCall ==
  /\ Idle
  /\ \E responseData \in RenderedData :
       lastOp' = [op |-> "ResponseRenderer", arg |-> responseData,
                  res |-> ResponseRenderer(responseData)]
  /\ UNCHANGED <<now, n8nVars, dbVars, storeVars, statusVars>>

\* C26: ResponseRenderer throws for no response data: it gives the display of
\* the type or an error panel.
C26_NeverThrows ==
  lastOp.op = "ResponseRenderer" => lastOp.res.kind \in {"display", "panel"}

(***************************************************************************)
(* transformChartData of MixedContentRenderer: a chart description in the  *)
(* Chart.js or the Recharts format becomes the ChartData of ChartRenderer, *)
(* or null.  The options of the result, which do not depend on the data,   *)
(* are left out.                                                           *)
(***************************************************************************)
ChartTypes == {"bar", "line", "pie", "area", "scatter"}

\* `${type.charAt(0).toUpperCase() + type.slice(1)} Chart`
DefaultTitle ==
  [bar |-> "Bar Chart", line |-> "Line Chart", pie |-> "Pie Chart",
   area |-> "Area Chart", scatter |-> "Scatter Chart"]

\* ds.label || `series${dsIdx}`, for the dataset at position i
SeriesKey(ds, i) ==
  IF Truthy(Get(ds, "label")) THEN Get(ds, "label").s
  ELSE "series" \o ToString(i - 1)

\* the object of one label of a chart of several series
SeriesPoint(label, idx, datasets) ==
  LET keys == {SeriesKey(datasets[i], i) : i \in 1..Len(datasets)}
      last(k) == CHOOSE i \in 1..Len(datasets) :
                   /\ SeriesKey(datasets[i], i) = k
                   /\ \A j \in 1..Len(datasets) : SeriesKey(datasets[j], j) = k => j <= i
  IN  Obj([k \in keys \cup {"name"} |->
             IF k \in keys THEN At(Get(datasets[last(k)], "data"), idx) ELSE label])

\* The try block: the data array, "null" where the block returns null, also
\* from its catch clause.
DataArray(type, chartDataRaw) ==
  LET datasets == Get(chartDataRaw, "datasets")
      labels == Get(chartDataRaw, "labels")
      first == Get(At(datasets, 1), "data")
      none == [ret |-> "null", items |-> <<>>]
      some(items) == [ret |-> "data", items |-> items]
  IN
  IF type = Str("scatter") /\ Truthy(datasets) /\ IsArray(datasets) /\ Truthy(first)
    THEN IF /\ IsArray(first)
            /\ Len(first.items) > 0
            /\ Readable(first.items[1])
            /\ Get(first.items[1], "x") # Undefined
            /\ Get(first.items[1], "y") # Undefined
           THEN some(first.items)
           ELSE none
  ELSE IF IsArray(chartDataRaw) THEN some(chartDataRaw.items)
  ELSE IF Truthy(labels) /\ IsArray(datasets)
    THEN IF ~IsArray(labels) THEN none
         ELSE IF labels.items = <<>> THEN some(<<>>)
         ELSE IF type \in {Str("line"), Str("area")} /\ Len(datasets.items) > 1
           THEN IF \E i \in 1..Len(datasets.items) :
                     \/ ~Readable(datasets.items[i])
                     \/ ~Readable(Get(datasets.items[i], "data"))
                  THEN none
                  ELSE some([idx \in 1..Len(labels.items) |->
                               SeriesPoint(labels.items[idx], idx, datasets.items)])
         ELSE IF ~Readable(At(datasets, 1)) \/ ~Readable(first)
           THEN none
           ELSE some([idx \in 1..Len(labels.items) |->
                        Obj([name |-> labels.items[idx], value |-> At(first, idx)])])
  ELSE IF TypeofObject(chartDataRaw) /\ chartDataRaw # Null THEN some(<<chartDataRaw>>)
  ELSE none

TransformChartData(chartConfig) ==
  IF ~Truthy(chartConfig) \/ ~TypeofObject(chartConfig) THEN Null
  ELSE
    LET type == Get(chartConfig, "type")
        options == Get(chartConfig, "options")
        found == DataArray(type, Get(chartConfig, "data"))
        title == IF Truthy(Get(chartConfig, "title")) THEN Get(chartConfig, "title")
                 ELSE IF Truthy(Get(Get(options, "title"), "text"))
                   THEN Get(Get(options, "title"), "text")
                 ELSE Str(DefaultTitle[type.s])
        firstItem == found.items[1]
        byXY == /\ found.items # <<>>
                /\ type = Str("scatter")
                /\ Get(firstItem, "x") # Undefined
                /\ Get(firstItem, "y") # Undefined
    IN  IF ~Truthy(type) \/ type \notin {Str(t) : t \in ChartTypes} THEN Null
        ELSE IF found.ret = "null" THEN Null
        ELSE IF found.items # <<>> /\ type = Str("scatter") /\ ~Readable(firstItem)
          THEN Thrown("TypeError: Cannot read properties of null")
        ELSE [kind |-> "chartData", type |-> type, title |-> title,
              data |-> Arr(found.items),
              xKey |-> IF byXY THEN "x" ELSE "name",
              yKey |-> IF byXY THEN "y" ELSE "value"]

\* the chart descriptions: values that are no objects, and objects of the
\* keys that transformChartData reads
ChartDatasets ==
  {Arr(<<>>), Arr(<<Obj([data |-> Arr(<<Num(1), Num(2)>>)])>>),
   Arr(<<Obj([label |-> Str("A"), data |-> Arr(<<Num(1), Num(2)>>)]),
         Obj([data |-> Arr(<<Num(3)>>)])>>),
   Arr(<<Obj([data |-> Arr(<<Obj([x |-> Num(1), y |-> Num(2)])>>)])>>),
   Arr(<<Null>>)}
ChartRaws ==
  {Undefined, Null, Str("Hi"), Arr(<<>>), Arr(<<Null>>),
   Arr(<<Obj([name |-> Str("A"), value |-> Num(1)])>>),
   Arr(<<Obj([x |-> Num(1), y |-> Num(2)])>>),
   Obj([value |-> Num(1)])}
  \cup {Obj([labels |-> labels, datasets |-> datasets]) :
          labels \in {Arr(<<>>), Arr(<<Str("Q1"), Str("Q2")>>), Str("Q1")},
          datasets \in ChartDatasets}
ChartConfigs ==
  {Undefined, Null, Str("pie"), Arr(<<>>)}
  \cup {ObjOf(f) : f \in [type : {Undefined, Str("donut")} \cup {Str(t) : t \in ChartTypes},
                          data : ChartRaws,
                          title : {Undefined, Str("Sales")}]}

TransformChartDataCall ==
  /\ Idle
  /\ \E chartConfig \in ChartConfigs :
       lastOp' = [op |-> "transformChartData", arg |-> chartConfig,
                  res |-> TransformChartData(chartConfig)]
  /\ UNCHANGED <<now, n8nVars, dbVars, storeVars, statusVars>>

\* C28: for a chart description of type pie whose data is an empty array or
\* is missing, transformChartData returns null.
C28_EmptyPieIsNull ==
  (/\ lastOp.op = "transformChartData"
   /\ Get(lastOp.arg, "type") = Str("pie")
   /\ Get(lastOp.arg, "data") \in {Undefined, Arr(<<>>)})
  => lastOp.res = Null

(***************************************************************************)
(* MixedContentRenderer: the keys of each object of the content are sorted *)
(* with the comparator below and a fragment is pushed for each text key    *)
(* with a string and each chart key with an object.                        *)
(***************************************************************************)
Alphabet ==
  <<"0", "1", "2", "3", "4", "5", "6", "7", "8", "9",
    "a", "b", "c", "d", "e", "f", "g", "h", "i", "j", "k", "l", "m",
    "n", "o", "p", "q", "r", "s", "t", "u", "v", "w", "x", "y", "z">>
CharRank(c) == CHOOSE i \in 1..Len(Alphabet) : Alphabet[i] = c
IsDigit(c) == CharRank(c) <= 10

\* key.match(/\d+$/) and parseInt
RECURSIVE TrailingDigits(_)
TrailingDigits(chars) ==
  IF chars = <<>> \/ ~IsDigit(chars[Len(chars)]) THEN <<>>
  ELSE TrailingDigits(SubSeq(chars, 1, Len(chars) - 1)) \o <<chars[Len(chars)]>>

RECURSIVE ParseInt(_)
ParseInt(digits) ==
  IF digits = <<>> THEN 0
  ELSE 10 * ParseInt(SubSeq(digits, 1, Len(digits) - 1))
         + (CharRank(digits[Len(digits)]) - 1)

GetNumber(key) == ParseInt(TrailingDigits(KeyChars[key]))

\* a.localeCompare(b) for keys of digits and lower-case letters
RECURSIVE CompareChars(_, _)
CompareChars(a, b) ==
  IF a = <<>> /\ b = <<>> THEN 0
  ELSE IF a = <<>> THEN -1
  ELSE IF b = <<>> THEN 1
  ELSE IF CharRank(Head(a)) < CharRank(Head(b)) THEN -1
  ELSE IF CharRank(Head(a)) > CharRank(Head(b)) THEN 1
  ELSE CompareChars(Tail(a), Tail(b))

LocaleCompare(a, b) == CompareChars(KeyChars[a], KeyChars[b])

\* the comparator given to sort
CompareKeys(a, b) ==
  IF GetNumber(a) # GetNumber(b) THEN GetNumber(a) - GetNumber(b)
  ELSE IF StartsWith(a, TextPrefix) /\ StartsWith(b, ChartPrefix) THEN -1
  ELSE IF StartsWith(a, ChartPrefix) /\ StartsWith(b, TextPrefix) THEN 1
  ELSE LocaleCompare(a, b)

\* Object.keys(item).sort(comparator): the orders of the keys in which each
\* key is before its successor by the comparator.  Where the comparator is
\* a total order on the keys this is the one sorted order; where it is not,
\* the result depends on the order in which the keys were inserted, and each
\* of these orders is the result for one of them.
SortedKeys(item) ==
  LET keys == DOMAIN item.fields
      n == Cardinality(keys)
  IN  {p \in [1..n -> keys] :
         /\ \A i, j \in 1..n : p[i] = p[j] => i = j
         /\ \A i \in 1..(n - 1) : CompareKeys(p[i], p[i + 1]) <= 0}

\* the fragments pushed for the object at itemIndex, its keys in order
RECURSIVE Fragments(_, _, _)
Fragments(item, itemIndex, order) ==
  IF order = <<>> THEN <<>>
  ELSE
    LET key == Head(order)
        value == item.fields[key]
        pushed == IF StartsWith(key, TextPrefix) /\ value.kind = "string"
                    THEN <<[item |-> itemIndex, key |-> key, of |-> "text"]>>
                  ELSE IF /\ StartsWith(key, ChartPrefix)
                          /\ Truthy(value)
                          /\ TypeofObject(value)
                    THEN <<[item |-> itemIndex, key |-> key,
                            of |-> IF TransformChartData(value) = Null
                                     THEN "chartError" ELSE "chart"]>>
                  ELSE <<>>
    IN  pushed \o Fragments(item, itemIndex, Tail(order))

\* the fragments of the items from itemIndex on; orders[i] is the sorted
\* order of the keys of the item i
RECURSIVE RenderItems(_, _, _)
RenderItems(items, orders, itemIndex) ==
  IF itemIndex > Len(items) THEN <<>>
  ELSE (IF ~Truthy(items[itemIndex]) \/ ~TypeofObject(items[itemIndex])
          THEN <<>>
          ELSE Fragments(items[itemIndex], itemIndex, orders[itemIndex]))
       \o RenderItems(items, orders, itemIndex + 1)

MixedContentRenderer(content, orders) ==
  IF ~IsArray(content) \/ content.items = <<>>
    THEN [kind |-> "display", of |-> "No content to display", fragments |-> <<>>]
  ELSE LET renderItems == RenderItems(content.items, orders, 1) IN
    IF renderItems = <<>>
      THEN [kind |-> "display", of |-> "No valid content found to display",
            fragments |-> <<>>]
      ELSE [kind |-> "display", of |-> "mixed", fragments |-> renderItems]

\* the objects of a mixed content: any of the keys below, with values of
\* the kind that gives a fragment and of another kind
PieChart == Obj([type |-> Str("pie"), data |-> Arr(<<Obj([value |-> Num(1)])>>)])
MixedItems ==
  {ObjOf(f) : f \in [text1 : {Undefined, Str("One")},
                     text2 : {Undefined, Str("Two"), Num(2)},
                     text10 : {Undefined, Str("Ten")},
                     chart1 : {Undefined, PieChart, Str("pie")},
                     note1 : {Undefined, Str("Note")}]}
MixedContents ==
  {Null, Str("One"), Arr(<<>>), Arr(<<Null>>),
   Arr(<<Obj([text2 |-> Str("Two")]), Obj([chart1 |-> PieChart, text1 |-> Str("One")])>>)}
  \cup {Arr(<<item>>) : item \in MixedItems}

\* the sorted orders of the keys of the items of a content
KeyOrders(content) ==
  IF ~IsArray(content) THEN {<<>>}
  ELSE LET items == content.items
           sorted(i) == IF items[i].kind = "object" THEN SortedKeys(items[i])
                        ELSE {<<>>}
       IN  {orders \in [1..Len(items) -> UNION {sorted(i) : i \in 1..Len(items)}] :
              \A i \in 1..Len(items) : orders[i] \in sorted(i)}

MixedContentRendererCall ==
  /\ Idle
  /\ \E content \in MixedContents :
       \E orders \in KeyOrders(content) :
         lastOp' = [op |-> "MixedContentRenderer", arg |-> content,
                    res |-> MixedContentRenderer(content, orders)]
  /\ UNCHANGED <<now, n8nVars, dbVars, storeVars, statusVars>>

\* is the fragment f a text fragment?
OfText(f) == StartsWith(f.key, TextPrefix)

\* C27: the fragments of each object are in the order of the trailing
\* numbers of their keys, a text key before a chart key of the same number,
\* and every fragment is of a key that starts with text or chart.
C27_FragmentOrder ==
  lastOp.op = "MixedContentRenderer" =>
    LET fragments == lastOp.res.fragments IN
      /\ \A i \in 1..Len(fragments) :
           StartsWith(fragments[i].key, TextPrefix)
             \/ StartsWith(fragments[i].key, ChartPrefix)
      /\ \A i, j \in 1..Len(fragments) :
           (i < j /\ fragments[i].item = fragments[j].item) =>
             /\ GetNumber(fragments[i].key) <= GetNumber(fragments[j].key)
             /\ GetNumber(fragments[i].key) = GetNumber(fragments[j].key) =>
                  ~(~OfText(fragments[i]) /\ OfText(fragments[j]))

(***************************************************************************)
(* ChatMessageEnhanced: one message component from its first render, with  *)
(* its state isNewMessage and the state isStreaming and index of its       *)
(* useStreamingText.  ChatInterface never passes the prop isStreaming.     *)
(* lastOp holds the component: its message, the age of the message at the  *)
(* mount, its state, and the branch of the content rendering that the      *)
(* latest render took.                                                     *)
(***************************************************************************)
NewMessageAge == 10000

\* the values of the text keys of an object in the order of its entries,
\* which the model takes to be the order of localeCompare
RECURSIVE TextFieldsIn(_, _)
TextFieldsIn(item, keys) ==
  IF keys = {} THEN <<>>
  ELSE LET key == CHOOSE k \in keys : \A other \in keys : LocaleCompare(k, other) <= 0
           value == item.fields[key]
       IN  (IF StartsWith(key, TextPrefix) /\ value.kind = "string" /\ "s" \in DOMAIN value
              THEN <<value.s>> ELSE <<>>)
           \o TextFieldsIn(item, keys \ {key})

RECURSIVE AllTextFields(_)
AllTextFields(items) ==
  IF items = <<>> THEN <<>>
  ELSE (IF Head(items).kind = "object"
          THEN TextFieldsIn(Head(items), DOMAIN Head(items).fields)
          ELSE <<>>)
       \o AllTextFields(Tail(items))

\* fields.join('\n\n'), as lines
RECURSIVE JoinParagraphs(_)
JoinParagraphs(fields) ==
  IF fields = <<>> THEN <<>>
  ELSE IF Len(fields) = 1 THEN fields
  ELSE <<Head(fields), "">> \o JoinParagraphs(Tail(fields))

\* JSON.stringify(content, null, 2): a text whose characters the model does
\* not tell apart
JsonStringify(content) == Str("{..}")

ContentForStreaming(message) ==
  LET content == IF message.responseData = Undefined THEN Undefined
                 ELSE message.responseData.content
  IN  IF message.type = "assistant" /\ Truthy(content)
        THEN IF content.kind = "string" THEN content
             ELSE IF TypeofObject(content)
               THEN LET allTextFields ==
                          IF IsArray(content) THEN AllTextFields(content.items)
                          ELSE TextFieldsIn(content, DOMAIN content.fields)
                        extractedText == Join(JoinParagraphs(allTextFields))
                    IN  IF Truthy(extractedText) THEN extractedText
                        ELSE JsonStringify(content)
             ELSE JsonStringify(content)
        ELSE Str(message.content)

\* text.length
RECURSIVE LengthOfLines(_)
LengthOfLines(lines) ==
  IF lines = <<>> THEN 0
  ELSE Len(Head(lines)) + (IF Len(lines) > 1 THEN 1 ELSE 0) + LengthOfLines(Tail(lines))
TextLength(text) ==
  IF "lines" \in DOMAIN text THEN LengthOfLines(text.lines) ELSE Len(text.s)

\* the branch of the content rendering
RenderPath(message, isTextStreaming) ==
  IF message.type = "assistant" /\ message.responseData # Undefined /\ ~isTextStreaming
    THEN "ResponseRenderer"
    ELSE "ReactMarkdown"

\* the component after a render with the given state
Component(message, age, phase, isNewMessage, isTextStreaming, index) ==
  [op |-> "ChatMessageEnhanced", arg |-> message, age |-> age, phase |-> phase,
   isNewMessage |-> isNewMessage, isTextStreaming |-> isTextStreaming,
   index |-> index, path |-> RenderPath(message, isTextStreaming)]

\* the messages of a list: user messages, and assistant messages as
\* sendMessage builds them, with content '' and the response data
DisplayedMessages ==
  {[type |-> "user", content |-> "Hi", responseData |-> Undefined]}
  \cup {[type |-> "assistant", content |-> "", responseData |-> data] :
          data \in {Undefined}
            \cup [type : {Str(t) : t \in {"text", "json", "chart", "mixed"}},
                  content : {Undefined, Str(""), Str("Hi"), PieChart, Obj(<<>>),
                             Arr(<<Obj([text1 |-> Str("One"), chart1 |-> PieChart,
                                        text2 |-> Str("Two")])>>)}]}

\* the first render of a message
ChatMessageMount ==
  /\ Idle
  /\ \E message \in DisplayedMessages, messageAge \in {0, NewMessageAge} :
       lastOp' = Component(message, messageAge, "rendered", FALSE, FALSE, 0)
  /\ UNCHANGED <<now, n8nVars, dbVars, storeVars, statusVars>>

\* the effect that follows the first render sets isNewMessage
ChatMessageEffect ==
  /\ lastOp.op = "ChatMessageEnhanced"
  /\ lastOp.phase = "rendered"
  /\ lastOp' = Component(lastOp.arg, lastOp.age, "aged",
                         lastOp.arg.type = "assistant" /\ lastOp.age < NewMessageAge,
                         FALSE, 0)
  /\ UNCHANGED <<now, n8nVars, dbVars, storeVars, statusVars>>

\* the option enabled of useStreamingText, with its text
StreamingEnabled(message, isNewMessage) ==
  /\ message.type = "assistant"
  /\ isNewMessage
  /\ Truthy(ContentForStreaming(message))

\* the effect of useStreamingText after enabled became true
StreamingStart ==
  /\ lastOp.op = "ChatMessageEnhanced"
  /\ lastOp.phase = "aged"
  /\ StreamingEnabled(lastOp.arg, lastOp.isNewMessage) = TRUE
  /\ lastOp' = Component(lastOp.arg, lastOp.age, "streaming", lastOp.isNewMessage, TRUE, 0)
  /\ UNCHANGED <<now, n8nVars, dbVars, storeVars, statusVars>>

\* the interval of useStreamingText fires
StreamingTick ==
  /\ lastOp.op = "ChatMessageEnhanced"
  /\ lastOp.phase = "streaming"
  /\ lastOp' = IF lastOp.index < TextLength(ContentForStreaming(lastOp.arg))
                 THEN Component(lastOp.arg, lastOp.age, "streaming", lastOp.isNewMessage,
                                TRUE, lastOp.index + 1)
                 ELSE Component(lastOp.arg, lastOp.age, "streamed", lastOp.isNewMessage,
                                FALSE, lastOp.index)
  /\ UNCHANGED <<now, n8nVars, dbVars, storeVars, statusVars>>

\* C29: an assistant message with response data of a type other than text
\* is rendered by ResponseRenderer in every render.
C29_RendererOnly ==
  (/\ lastOp.op = "ChatMessageEnhanced"
   /\ lastOp.arg.type = "assistant"
   /\ lastOp.arg.responseData # Undefined
   /\ lastOp.arg.responseData.type # Str("text"))
  => lastOp.path = "ResponseRenderer"

NextRender ==
  \/ ResponseRendererCall
  \/ TransformChartDataCall
  \/ MixedContentRendererCall
  \/ ChatMessageMount
  \/ ChatMessageEffect
  \/ StreamingStart
  \/ StreamingTick

SpecRender == InitRender /\ [][NextRender]_vars

====
